---- MODULE Spec2Model ----
(***************************************************************************)
(* A model of the distributed bootstrap machinery of the inferelator:      *)
(*   - the per-bootstrap rendezvous of run_bootstrap                        *)
(*     (inferelator_ng/single_cell_bbsr_tfa_workflow.py),                   *)
(*   - the partition of the gene chunks among the ranks,                    *)
(*   - the bootstrap sampler get_bootstraps (workflow.py),                  *)
(*   - the expression store InferelatorData (inferelator/utils/data.py).    *)
(***************************************************************************)
EXTENDS Integers, Sequences, FiniteSets, TLC

(***************************************************************************)
(* Bounds of the model.                                                     *)
(***************************************************************************)
NumRanks == 3
NumBootstraps == 2
MaxUnits == 52
MaxSeed == 2
MaxSamples == 3
MaxEntropy == 1
NumGenes == 2
NumSamples == 3
MaxOps == 1

\* chunk=25 in the call of utils.ownCheck
ChunkSize == 25

Ranks == 0 .. (NumRanks - 1)
Ordinals == 0 .. (NumBootstraps - 1)

VARIABLES
    pc,         \* per rank: the statement of the bootstrap loop it is at
    idx,        \* per rank: the bootstrap ordinal passed to run_bootstrap
    clr_mat,    \* per rank: the local variable clr_mat
    kvs,        \* the shared key-value store: a set of [key, value] entries
    own,        \* per rank: the chunk set ownCheck gives it
    delivered,  \* <<rank, ordinal>>: partial results handed to the collector
    putLog,     \* history: every kvs.put, in order
    viewed,     \* history: <<rank, ordinal>> of every kvs.view that returned
    cleared,    \* history: every kvs.get that removed an entry
    regressed,  \* history: <<rank, ordinal>> of every started regression
    part,       \* the partition's arguments [total, chunk, ranks]
    entropy,    \* what the operating system hands an unseeded generator
    boot,       \* per workflow run: its call of get_bootstraps
    store,      \* the InferelatorData object
    last,       \* the last call on the store: its arguments, outcome, store before
    nops,       \* the number of calls made on the store
    twin,       \* after copy(): the other of the two instances, now and at the copy
    wf          \* the workflow object: where its startup is, what it has loaded

protoVars == <<pc, idx, clr_mat, kvs, own, delivered, putLog, viewed, cleared, regressed>>
bootVars == <<entropy, boot, wf>>
storeVars == <<store, last, nops, twin>>
vars == <<pc, idx, clr_mat, kvs, own, delivered, putLog, viewed, cleared, regressed, part,
          entropy, boot, store, last, nops, twin, wf>>

(***************************************************************************)
(* The rendezvous of run_bootstrap.                                         *)
(***************************************************************************)

\* WorkflowBase.is_master: rank 0
IsMasterAny(rank) == rank = rank
IsMaster(rank) == rank = 0

\* The CLR matrix MIDriver.run computes from bootstrap i's data; None is the
\* value of clr_mat outside a bootstrap.
ClrOf(i) == [boot |-> i]
None == [boot |-> -1]

\* 'mi %d' % idx, as the master formats it for kvs.put, and a rank for
\* kvs.view and kvs.get
MiKey(i) == [name |-> "mi", ord |-> i]
PutKeyNext(i) == MiKey(i + 1)
PutKey(i) == MiKey(i)
ViewKey(i) == MiKey(i)
GetKey(i) == MiKey(i)

\* kvs.view blocks until an entry of the key exists
ViewReady(key) == \E e \in kvs : e.key = key

\* The value a read of the key returns (None: the key holds nothing)
Lookup(key) ==
    IF \E e \in kvs : e.key = key
    THEN (CHOOSE e \in kvs : e.key = key).value
    ELSE None

\* The order of the statements of run_bootstrap: the statement after `step'
NextPcRegressFirst(step, master) ==
    CASE step = "loop" -> "own"
      [] step = "own" -> "bbsr"
      [] step = "bbsr" -> "collect"
      [] step = "collect" -> "mi"
      [] step = "mi" -> IF master THEN "put" ELSE "clear"
      [] step = "put" -> "clear"
      [] step = "clear" -> "release"
      [] OTHER -> "loop"
NextPcClearFirst(step, master) ==
    CASE step = "loop" -> "mi"
      [] step = "mi" -> IF master THEN "put" ELSE "own"
      [] step = "put" -> "clear"
      [] step = "clear" -> "own"
      [] step = "own" -> "bbsr"
      [] step = "bbsr" -> "collect"
      [] step = "collect" -> "release"
      [] OTHER -> "loop"
NextPcReleaseFirst(step, master) ==
    CASE step = "loop" -> "mi"
      [] step = "mi" -> IF master THEN "put" ELSE "own"
      [] step = "put" -> "own"
      [] step = "own" -> "bbsr"
      [] step = "bbsr" -> "collect"
      [] step = "collect" -> "release"
      [] step = "release" -> "clear"
      [] OTHER -> "loop"
NextPcNoClear(step, master) ==
    CASE step = "loop" -> "mi"
      [] step = "mi" -> IF master THEN "put" ELSE "own"
      [] step = "put" -> "own"
      [] step = "own" -> "bbsr"
      [] step = "bbsr" -> "collect"
      [] step = "collect" -> "release"
      [] OTHER -> "loop"
NextPc(step, master) ==
    CASE step = "loop" -> "mi"
      [] step = "mi" -> IF master THEN "put" ELSE "own"
      [] step = "put" -> "own"
      [] step = "own" -> "bbsr"
      [] step = "bbsr" -> "collect"
      [] step = "collect" -> "clear"
      [] step = "clear" -> "release"
      [] OTHER -> "loop"

\* utils.ownCheck: chunk k of ceil(total/chunk) chunks belongs to rank
\* k mod ranks
NumChunks(total, chunk) == (total + chunk - 1) \div chunk
OwnedChunks(total, chunk, ranks, rank) ==
    {k \in 0 .. (NumChunks(total, chunk) - 1) : k % ranks = rank}

\* utils.ownCheck(self.kvs, self.rank, chunk=...) as run_bootstrap calls it
UtilsOwnCheckRankZero(rank, chunk) == OwnedChunks(part.total, chunk, part.ranks, 0)
UtilsOwnCheckFromStore(rank, chunk) ==
    OwnedChunks(part.total, chunk, part.ranks, (rank + Cardinality(kvs)) % part.ranks)
UtilsOwnCheck(rank, chunk) == OwnedChunks(part.total, chunk, part.ranks, rank)

\* The master's regression call returns once every rank has handed the
\* partial results of the bootstrap to the collector.
AllRanksConfirmed(i) == \A q \in Ranks : <<q, i>> \in delivered

(***************************************************************************)
(* The expression store, InferelatorData: samples by genes.                 *)
(***************************************************************************)

\* Numbers are exact fractions <<n, d>> in lowest terms with d > 0; d = 0
\* holds the non-finite values: <<1, 0>> inf, <<-1, 0>> -inf, <<0, 0>> nan.
Abs(n) == IF n < 0 THEN -n ELSE n
Sign(n) == IF n < 0 THEN -1 ELSE IF n > 0 THEN 1 ELSE 0
RECURSIVE Gcd(_, _)
Gcd(a, b) == IF b = 0 THEN a ELSE Gcd(b, a % b)
Norm(n, d) ==
    IF d = 0 THEN <<Sign(n), 0>>
    ELSE <<(Sign(d) * n) \div Gcd(Abs(n), Abs(d)), Abs(d) \div Gcd(Abs(n), Abs(d))>>
Num(k) == <<k, 1>>
NaNValue == <<0, 0>>
IsFinite(v) == v[2] # 0
IsNaN(v) == v = NaNValue
VMul(a, b) == Norm(a[1] * b[1], a[2] * b[2])
Recip(b) ==
    IF b[1] = 0 THEN (IF b[2] = 0 THEN NaNValue ELSE <<1, 0>>)
    ELSE IF b[2] = 0 THEN Num(0)
    ELSE Norm(b[2], b[1])
VDiv(a, b) == VMul(a, Recip(b))
VNeg(a) == <<-a[1], a[2]>>
VSub(a, b) ==
    IF IsFinite(a) /\ IsFinite(b) THEN Norm(a[1] * b[2] - b[1] * a[2], a[2] * b[2])
    ELSE IF IsNaN(a) \/ IsNaN(b) \/ a = b THEN NaNValue
    ELSE IF ~IsFinite(a) THEN a
    ELSE VNeg(b)
InfRank(v) == IF v[2] = 0 THEN v[1] ELSE 0
VLess(a, b) ==
    IF IsNaN(a) \/ IsNaN(b) THEN FALSE
    ELSE IF InfRank(a) # InfRank(b) THEN InfRank(a) < InfRank(b)
    ELSE IF a[2] = 0 THEN FALSE
    ELSE a[1] * b[2] < b[1] * a[2]

\* The dtypes of the backing array
IntDtypes == {"int16", "int32", "int64"}
FloatDtypes == {"float32", "float64"}
Dtypes == IntDtypes \cup FloatDtypes
Formats == {"dense", "csr", "csc"}
IsSparseNever(st) == FALSE
IsSparse(st) == st.fmt # "dense"

\* Labels and tables (pandas data frames): an index of row labels, a set of
\* column names and the cells; NaNCell fills a row the frame had no data for.
GeneLabels == [j \in 1 .. NumGenes |-> <<"g1", "g2", "g3", "g4", "g5">>[j]]
SampleLabels == [i \in 1 .. NumSamples |-> <<"s1", "s2", "s3", "s4", "s5">>[i]]
SeqRange(q) == {q[k] : k \in DOMAIN q}
NaNCell == [v |-> "NaN", of |-> "NaN"]
EmptyTable(names) ==
    [index |-> names, cols |-> {}, cell |-> [p \in (DOMAIN names) \X {} |-> NaNCell]]
RowOf(t, label) == CHOOSE k \in DOMAIN t.index : t.index[k] = label

\* DataFrame.reindex(names): the rows of the frame in the order of names,
\* NaN rows for the names the frame does not have
Reindex(t, names) ==
    [index |-> names,
     cols |-> t.cols,
     cell |-> [p \in (DOMAIN names) \X t.cols |->
                 IF names[p[1]] \in SeqRange(t.index)
                 THEN t.cell[<<RowOf(t, names[p[1]]), p[2]>>]
                 ELSE NaNCell]]

\* frame.loc[:, columns]
LocColumns(t, columns) ==
    [index |-> t.index,
     cols |-> columns,
     cell |-> [p \in (DOMAIN t.index) \X columns |-> t.cell[p]]]

\* pd.concat((a, b)): axis=0, the rows of b appended to the rows of a, over
\* the union of the columns
PdConcat(a, b) ==
    [index |-> a.index \o b.index,
     cols |-> a.cols \cup b.cols,
     cell |-> [p \in (1 .. (Len(a.index) + Len(b.index))) \X (a.cols \cup b.cols) |->
                 IF p[1] <= Len(a.index)
                 THEN (IF p[2] \in a.cols THEN a.cell[p] ELSE NaNCell)
                 ELSE (IF p[2] \in b.cols
                       THEN b.cell[<<p[1] - Len(a.index), p[2]>>]
                       ELSE NaNCell)]]

\* AnnData accepts a frame for .var or .obs only if it has one row per
\* gene or sample
AnnDataAccepts(t, names) == Len(t.index) = Len(names)

\* A column of the matrix handed to the constructor: all zero, all one, or
\* 0, 1, 2, ... down the samples; and, for a floating matrix, 0, 1, 2, ...
\* with inf or nan in its second row
ColumnKinds == {"zero", "const", "vary"}
NonFiniteKinds == {"inf", "nan"}
ColumnValue(kind, i) ==
    IF kind = "zero" THEN Num(0)
    ELSE IF kind = "const" THEN Num(1)
    ELSE IF kind = "inf" /\ i = 2 THEN <<1, 0>>
    ELSE IF kind = "nan" /\ i = 2 THEN NaNValue
    ELSE Num(i - 1)

NoUns == [has |-> FALSE, list |-> {}]

\* InferelatorData.__init__ on an array of the given format and dtype
NewStore(fmt, dtype, kinds) ==
    [fmt |-> fmt,
     dtype |-> dtype,
     is_integer |-> dtype \in IntDtypes,
     gene_names |-> GeneLabels,
     sample_names |-> SampleLabels,
     X |-> [i \in 1 .. NumSamples |-> [j \in 1 .. NumGenes |-> ColumnValue(kinds[j], i)]],
     nz |-> IF fmt = "dense" THEN {}
            ELSE {p \in (1 .. NumSamples) \X (1 .. NumGenes) :
                    ColumnValue(kinds[p[2]], p[1]) # Num(0)},
     var |-> EmptyTable(GeneLabels),
     obs |-> EmptyTable(SampleLabels),
     uns |-> NoUns]

NumObs(st) == Len(st.sample_names)
NumVars(st) == Len(st.gene_names)
Column(st, j) == [i \in 1 .. NumObs(st) |-> st.X[i][j]]

NoCall == [op |-> "none", err |-> "none"]

\* The other instance after copy(): none before.  What copy() hands over
\* without copying is shared, and a call that changes it in place on one
\* instance changes it on the other: the matrix is copied, both tables are
\* copied, the labels are copied, and uns is copied one level deep, its
\* values (immutable indexes) shared.
NoTwin == [has |-> FALSE]
CopyShares == {}
WriteThrough(t, post) ==
    IF ~t.has THEN t
    ELSE [t EXCEPT !.obj = [@ EXCEPT
            !.X = IF "X" \in CopyShares THEN post.X ELSE @,
            !.obs = IF "obs" \in CopyShares THEN post.obs ELSE @,
            !.var = IF "var" \in CopyShares THEN post.var ELSE @,
            !.uns = IF "uns" \in CopyShares THEN post.uns ELSE @]]

\* np.max and np.min of a column: nan if the column holds a nan
ColMax(c) ==
    IF \E k \in DOMAIN c : IsNaN(c[k]) THEN NaNValue
    ELSE CHOOSE v \in SeqRange(c) : \A w \in SeqRange(c) : ~VLess(v, w)
ColMin(c) ==
    IF \E k \in DOMAIN c : IsNaN(c[k]) THEN NaNValue
    ELSE CHOOSE v \in SeqRange(c) : \A w \in SeqRange(c) : ~VLess(w, v)

\* comp = 0 if self._is_integer else np.finfo(dtype).eps * 10
Comp(st) == IF st.is_integer THEN Num(0) ELSE <<1, 1000000>>

\* The argument trim_gene_list: None, or a list of names
NoList == [given |-> FALSE, names |-> {}]
GivenList(names) == [given |-> TRUE, names |-> names]

\* keep_column_bool before the constant genes are looked at: the argument's
\* list, else the list recorded in uns, else every gene
KeepColumnBoolUnsFirst(st, L) ==
    [j \in 1 .. NumVars(st) |->
        IF st.uns.has THEN st.gene_names[j] \in st.uns.list
        ELSE IF L.given THEN st.gene_names[j] \in L.names
        ELSE TRUE]
KeepColumnBool(st, L) ==
    [j \in 1 .. NumVars(st) |->
        IF L.given THEN st.gene_names[j] \in L.names
        ELSE IF st.uns.has THEN st.gene_names[j] \in st.uns.list
        ELSE TRUE]

\* The genes remove_constant_genes keeps: sparse, a column with a stored
\* entry whose min differs from its max; dense, max - min > comp
NotConstant(st, j) ==
    IF IsSparse(st)
    THEN /\ \E i \in 1 .. NumObs(st) : <<i, j>> \in st.nz
         /\ ColMin(Column(st, j)) # ColMax(Column(st, j))
    ELSE VLess(Comp(st), VSub(ColMax(Column(st, j)), ColMin(Column(st, j))))

CountTrue(mask) == Cardinality({j \in DOMAIN mask : mask[j]})

\* self._adata[:, keep_column_bool].copy()
KeptIndices(mask) == SelectSeq([j \in DOMAIN mask |-> j], LAMBDA j : mask[j])
SliceGenes(st, mask) ==
    LET J == KeptIndices(mask) IN
    [st EXCEPT
        !.gene_names = [k \in DOMAIN J |-> st.gene_names[J[k]]],
        !.X = [i \in 1 .. NumObs(st) |-> [k \in DOMAIN J |-> st.X[i][J[k]]]],
        !.nz = {p \in (1 .. NumObs(st)) \X (DOMAIN J) : <<p[1], J[p[2]]>> \in st.nz},
        !.var = [index |-> [k \in DOMAIN J |-> st.var.index[J[k]]],
                 cols |-> st.var.cols,
                 cell |-> [p \in (DOMAIN J) \X st.var.cols |->
                             st.var.cell[<<J[p[1]], p[2]>>]]]]

\* if np.sum(keep_column_bool) == self._adata.shape[1]: pass; else the
\* object is replaced by a copy of its slice
RebuildsAlways(st, keep) == TRUE
Rebuilds(st, keep) == CountTrue(keep) # NumVars(st)

\* InferelatorData.trim_genes(remove_constant_genes, trim_gene_list)
TrimGenes(remove_constant_genes, trim_gene_list) ==
    /\ nops < MaxOps
    /\ nops' = nops + 1
    /\ LET base == KeepColumnBool(store, trim_gene_list)
           list_trim == NumVars(store) - CountTrue(base)
           keep == [j \in DOMAIN base |->
                      base[j] /\ (remove_constant_genes => NotConstant(store, j))]
           var_zero_trim == IF remove_constant_genes
                            THEN NumVars(store) - CountTrue(keep) + list_trim
                            ELSE 0
           call == [op |-> "trim_genes", err |-> "none",
                    remove_constant_genes |-> remove_constant_genes,
                    trim_gene_list |-> trim_gene_list,
                    lst |-> list_trim, v |-> var_zero_trim, rebuilt |-> FALSE,
                    pre |-> store]
       IN  IF CountTrue(keep) = 0
           THEN /\ last' = [call EXCEPT !.err = "No genes remain after trimming"]
                /\ store' = store
           ELSE /\ last' = [call EXCEPT !.rebuilt = Rebuilds(store, keep)]
                /\ store' = IF Rebuilds(store, keep) THEN SliceGenes(store, keep)
                            ELSE store
    /\ twin' = WriteThrough(twin, store')
    /\ UNCHANGED <<protoVars, part, bootVars>>

\* The frames handed to the metadata setters: one or two columns, every
\* cell telling the assignment (tag) and the row label it came with
Frame(index, cols, tag) ==
    [index |-> index,
     cols |-> cols,
     cell |-> [p \in (DOMAIN index) \X cols |-> [v |-> tag, of |-> index[p[1]]]]]

\* The gene_data setter: the store after the assignment, and the error raised
AssignGeneData(st, new_gene_data) ==
    LET trim_list == SeqRange(new_gene_data.index) \cap SeqRange(st.var.index)
        reindexed == Reindex(new_gene_data, st.gene_names)
        keep_columns == st.var.cols \ reindexed.cols
        joined == IF st.var.cols # {}
                  THEN PdConcat(reindexed, LocColumns(st.var, keep_columns))
                  ELSE reindexed
        recorded == [st EXCEPT !.uns = [has |-> TRUE, list |-> trim_list]]
    IN  IF AnnDataAccepts(joined, st.gene_names)
        THEN [store |-> [recorded EXCEPT !.var = joined], err |-> "none"]
        ELSE [store |-> recorded, err |-> "Length of passed value does not match"]

\* The meta_data setter
AssignMetaData(st, new_meta_data) ==
    LET reindexed == Reindex(new_meta_data, st.sample_names)
        keep_columns == st.obs.cols \ reindexed.cols
        joined == IF st.obs.cols # {}
                  THEN PdConcat(reindexed, LocColumns(st.obs, keep_columns))
                  ELSE reindexed
    IN  IF AnnDataAccepts(joined, st.sample_names)
        THEN [store |-> [st EXCEPT !.obs = joined], err |-> "none"]
        ELSE [store |-> st, err |-> "Length of passed value does not match"]

\* store.gene_data = new_gene_data
SetGeneData(new_gene_data) ==
    /\ nops < MaxOps
    /\ nops' = nops + 1
    /\ store' = AssignGeneData(store, new_gene_data).store
    /\ last' = [op |-> "gene_data", err |-> AssignGeneData(store, new_gene_data).err,
                new |-> new_gene_data, pre |-> store]
    /\ twin' = WriteThrough(twin, store')
    /\ UNCHANGED <<protoVars, part, bootVars>>

\* store.meta_data = new_meta_data
SetMetaData(new_meta_data) ==
    /\ nops < MaxOps
    /\ nops' = nops + 1
    /\ store' = AssignMetaData(store, new_meta_data).store
    /\ last' = [op |-> "meta_data", err |-> AssignMetaData(store, new_meta_data).err,
                new |-> new_meta_data, pre |-> store]
    /\ twin' = WriteThrough(twin, store')
    /\ UNCHANGED <<protoVars, part, bootVars>>

\* InferelatorData.__init__ with the meta_data and gene_data arguments: an
\* argument that is not None goes through its setter
NoData == [index |-> <<>>, cols |-> {}, cell |-> <<>>]
NewStoreWithData(fmt, dtype, kinds, meta_data, gene_data) ==
    LET made == NewStore(fmt, dtype, kinds)
        with_meta == IF meta_data = NoData THEN made
                     ELSE AssignMetaData(made, meta_data).store
    IN  IF gene_data = NoData THEN with_meta
        ELSE AssignGeneData(with_meta, gene_data).store

\* InferelatorData.convert_to_float: the store after it, and the error raised
ConvertToFloat(st) ==
    IF st.dtype \in FloatDtypes THEN [store |-> st, err |-> "none"]
    ELSE IF st.dtype = "int32"
    THEN [store |-> [st EXCEPT !.dtype = "float32", !.is_integer = FALSE], err |-> "none"]
    ELSE IF st.dtype = "int64"
    THEN [store |-> [st EXCEPT !.dtype = "float64", !.is_integer = FALSE], err |-> "none"]
    ELSE [store |-> st, err |-> "Data is not float, int32, or int64"]

\* The value handed to divide and multiply: a Python scalar (ndim 0, no ndim
\* attribute) or a 1-D array
Scalar(v) == [ndim |-> 0, data |-> <<v>>]
Vector(q) == [ndim |-> 1, data |-> q]
Pick(q, k) == IF Len(q) = 1 THEN q[1] ELSE q[k]
Broadcasts(len, dim) == len = dim \/ len = 1

\* The stored entries of a sparse matrix in the order of X.data: row after
\* row (CSR) or column after column (CSC)
RECURSIVE ConcatAll(_)
ConcatAll(ss) == IF ss = <<>> THEN <<>> ELSE Head(ss) \o ConcatAll(Tail(ss))
StoredOrder(st) ==
    IF st.fmt = "csr"
    THEN ConcatAll([i \in 1 .. NumObs(st) |->
            SelectSeq([j \in 1 .. NumVars(st) |-> <<i, j>>], LAMBDA q : q \in st.nz)])
    ELSE ConcatAll([j \in 1 .. NumVars(st) |->
            SelectSeq([i \in 1 .. NumObs(st) |-> <<i, j>>], LAMBDA q : q \in st.nz)])

\* X.getnnz(axis): the stored entries of each row (axis 1) or column (axis 0)
GetNnz(st, axis) ==
    IF axis = "1"
    THEN [i \in 1 .. NumObs(st) |-> Cardinality({j \in 1 .. NumVars(st) : <<i, j>> \in st.nz})]
    ELSE [j \in 1 .. NumVars(st) |-> Cardinality({i \in 1 .. NumObs(st) : <<i, j>> \in st.nz})]

\* np.repeat(values, counts)
Repeat(values, counts) ==
    ConcatAll([k \in DOMAIN values |-> [m \in 1 .. counts[k] |-> values[k]]])

\* X.data op= factors: the k-th stored entry with the k-th factor
ScaleData(st, op, factors) ==
    LET order == StoredOrder(st)
        At(q) == CHOOSE k \in DOMAIN order : order[k] = q
    IN  [st EXCEPT !.X = [i \in 1 .. NumObs(st) |-> [j \in 1 .. NumVars(st) |->
            IF <<i, j>> \in st.nz
            THEN (IF op = "divide" THEN VDiv(st.X[i][j], Pick(factors, At(<<i, j>>)))
                  ELSE VMul(st.X[i][j], Pick(factors, At(<<i, j>>))))
            ELSE st.X[i][j]]]]

\* X op= val for a dense X, val broadcast along the rows (by_row) or columns
ScaleDense(st, op, values, by_row) ==
    [st EXCEPT !.X = [i \in 1 .. NumObs(st) |-> [j \in 1 .. NumVars(st) |->
        IF op = "divide" THEN VDiv(st.X[i][j], Pick(values, IF by_row THEN i ELSE j))
        ELSE VMul(st.X[i][j], Pick(values, IF by_row THEN i ELSE j))]]]

\* The branch of divide / multiply that suits the sparse layout: CSR with
\* axis 1, CSC with axis 0
NaturalAxisSwapped(st, axis) ==
    \/ st.fmt = "csr" /\ axis = "0"
    \/ st.fmt = "csc" /\ axis = "1"
NaturalAxis(st, axis) ==
    \/ st.fmt = "csr" /\ axis = "1"
    \/ st.fmt = "csc" /\ axis = "0"

\* The body of divide and multiply after the conversion to float
ScaleBody(st, op, val, axis) ==
    IF IsSparse(st) /\ axis = "None"
    THEN IF Broadcasts(Len(val.data), Cardinality(st.nz))
         THEN [store |-> ScaleData(st, op, val.data), err |-> "none"]
         ELSE [store |-> st, err |-> "operands could not be broadcast together"]
    ELSE IF IsSparse(st) /\ NaturalAxis(st, axis)
    THEN IF val.ndim # 1
            \/ (IF axis = "1" THEN NumObs(st) ELSE NumVars(st)) # Len(val.data)
         THEN [store |-> st, err |-> "Division array is not aligned"]
         ELSE [store |-> ScaleData(st, op, Repeat(val.data, GetNnz(st, axis))), err |-> "none"]
    ELSE IF IsSparse(st)
    THEN [store |-> st, err |-> "axis = 1 only works for CSC & axis = 0 only works for CSR"]
    ELSE IF axis = "None"
    THEN IF Broadcasts(Len(val.data), NumVars(st))
         THEN [store |-> ScaleDense(st, op, val.data, FALSE), err |-> "none"]
         ELSE [store |-> st, err |-> "operands could not be broadcast together"]
    ELSE IF axis = "0"
    THEN IF val.ndim # 1
         THEN [store |-> st, err |-> "value cannot be indexed"]
         ELSE IF Broadcasts(Len(val.data), NumVars(st))
         THEN [store |-> ScaleDense(st, op, val.data, FALSE), err |-> "none"]
         ELSE [store |-> st, err |-> "operands could not be broadcast together"]
    ELSE IF axis = "1"
    THEN IF val.ndim # 1
         THEN [store |-> st, err |-> "value cannot be indexed"]
         ELSE IF Broadcasts(Len(val.data), NumObs(st))
         THEN [store |-> ScaleDense(st, op, val.data, TRUE), err |-> "none"]
         ELSE [store |-> st, err |-> "operands could not be broadcast together"]
    ELSE [store |-> st, err |-> "axis must be 0, 1 or None"]

\* divide and multiply: the conversion of an integer store, then the body.
\* The factors are floating: on a matrix whose dtype is integer while the
\* store is not flagged integer, numpy refuses the in-place operation.
Scale(st, op, val, axis) ==
    IF st.is_integer /\ ConvertToFloat(st).err # "none"
    THEN ConvertToFloat(st)
    ELSE LET conv == IF st.is_integer THEN ConvertToFloat(st).store ELSE st
             done == ScaleBody(conv, op, val, axis)
         IN  IF conv.dtype \in IntDtypes
                /\ done.err \in {"none", "operands could not be broadcast together"}
             THEN [store |-> conv, err |-> "Cannot cast ufunc output to the integer dtype"]
             ELSE done

\* InferelatorData.divide(div_val, axis)
Divide(div_val, axis) ==
    /\ nops < MaxOps
    /\ nops' = nops + 1
    /\ store' = Scale(store, "divide", div_val, axis).store
    /\ last' = [op |-> "divide", err |-> Scale(store, "divide", div_val, axis).err,
                val |-> div_val, axis |-> axis, pre |-> store]
    /\ twin' = WriteThrough(twin, store')
    /\ UNCHANGED <<protoVars, part, bootVars>>

\* InferelatorData.multiply(mult_val, axis)
Multiply(mult_val, axis) ==
    /\ nops < MaxOps
    /\ nops' = nops + 1
    /\ store' = Scale(store, "multiply", mult_val, axis).store
    /\ last' = [op |-> "multiply", err |-> Scale(store, "multiply", mult_val, axis).err,
                val |-> mult_val, axis |-> axis, pre |-> store]
    /\ twin' = WriteThrough(twin, store')
    /\ UNCHANGED <<protoVars, part, bootVars>>

\* The functions handed to transform: x * x keeps the dtype, x / 2 gives
\* floating values, floor(x).astype(int64) gives integers
Functions == {"square", "halve", "to_int"}
Apply(func, v) ==
    IF func = "square" THEN VMul(v, v)
    ELSE IF func = "halve" THEN VDiv(v, Num(2))
    ELSE IF IsFinite(v) THEN Num(v[1] \div v[2]) ELSE v
FuncDtype(func, dtype) ==
    IF func = "square" THEN dtype
    ELSE IF func = "halve" THEN (IF dtype \in IntDtypes THEN "float64" ELSE dtype)
    ELSE "int64"

\* X.data += 1 (sparse: the stored entries) or X += 1
VAdd(a, b) == VSub(a, VNeg(b))
AddPseudocount(st) ==
    [st EXCEPT !.X = [i \in 1 .. NumObs(st) |-> [j \in 1 .. NumVars(st) |->
        IF IsSparse(st) /\ <<i, j>> \notin st.nz THEN st.X[i][j]
        ELSE VAdd(st.X[i][j], Num(1))]]]

\* func over the stored entries (sparse) or over the whole matrix
ApplyFunc(st, func) ==
    [st EXCEPT !.X = [i \in 1 .. NumObs(st) |-> [j \in 1 .. NumVars(st) |->
        IF IsSparse(st) /\ <<i, j>> \notin st.nz THEN st.X[i][j]
        ELSE Apply(func, st.X[i][j])]]]

\* InferelatorData.transform: the store after it, and the error raised.
\* The row-chunked branch calls range() on the float np.ceil returns.
TransformStore(st, func, add_pseudocount, memory_efficient) ==
    LET counted == IF add_pseudocount THEN AddPseudocount(st) ELSE st
        replaced == [ApplyFunc(counted, func) EXCEPT !.dtype = FuncDtype(func, st.dtype)]
        same_type == FuncDtype(func, st.dtype) = st.dtype
    IN  IF IsSparse(st) THEN [store |-> replaced, err |-> "none"]
        ELSE IF st.is_integer THEN [store |-> replaced, err |-> "none"]
        ELSE IF ~memory_efficient /\ same_type
        THEN [store |-> ApplyFunc(counted, func), err |-> "none"]
        ELSE IF memory_efficient /\ same_type
        THEN [store |-> counted,
              err |-> "'numpy.float64' object cannot be interpreted as an integer"]
        ELSE [store |-> replaced, err |-> "none"]

\* store.transform(func, add_pseudocount, memory_efficient)
Transform(func, add_pseudocount, memory_efficient) ==
    /\ nops < MaxOps
    /\ nops' = nops + 1
    /\ store' = TransformStore(store, func, add_pseudocount, memory_efficient).store
    /\ last' = [op |-> "transform",
                err |-> TransformStore(store, func, add_pseudocount, memory_efficient).err,
                func |-> func, add_pseudocount |-> add_pseudocount,
                memory_efficient |-> memory_efficient, pre |-> store]
    /\ twin' = WriteThrough(twin, store')
    /\ UNCHANGED <<protoVars, part, bootVars>>

\* The labels AnnData gives when none are passed: '0', '1', ...
DefaultLabels(n) == [k \in 1 .. n |-> <<"0", "1", "2", "3", "4">>[k]]
Relabel(t, names) == [t EXCEPT !.index = names]

\* InferelatorData.copy(): a store constructed from copies of the matrix and
\* of both tables, each table through its setter of the new store, whose
\* labels are still the default ones; then the labels and uns are put in
CopyStore(st) ==
    LET made == [fmt |-> st.fmt,
                 dtype |-> st.dtype,
                 is_integer |-> st.dtype \in IntDtypes,
                 gene_names |-> DefaultLabels(NumVars(st)),
                 sample_names |-> DefaultLabels(NumObs(st)),
                 X |-> st.X,
                 nz |-> st.nz,
                 var |-> EmptyTable(DefaultLabels(NumVars(st))),
                 obs |-> EmptyTable(DefaultLabels(NumObs(st))),
                 uns |-> NoUns]
        filled == AssignGeneData(AssignMetaData(made, st.obs).store, st.var).store
    IN  [filled EXCEPT
            !.gene_names = st.gene_names,
            !.sample_names = st.sample_names,
            !.var = Relabel(@, st.gene_names),
            !.obs = Relabel(@, st.sample_names),
            !.uns = st.uns]

\* new = store.copy(); the calls that follow are made on one of the two
Copy(side) ==
    /\ ~twin.has
    /\ store' = IF side = "copy" THEN CopyStore(store) ELSE store
    /\ twin' = [has |-> TRUE,
                obj |-> IF side = "copy" THEN store ELSE CopyStore(store),
                was |-> IF side = "copy" THEN store ELSE CopyStore(store)]
    /\ last' = [op |-> "copy", err |-> "none", side |-> side, pre |-> store]
    /\ UNCHANGED <<protoVars, part, bootVars, nops>>

\* The operand of dot: a 2-D array or sparse matrix, rows by cols
Operand(fmt, rows, cols) ==
    [fmt |-> fmt,
     M |-> [i \in 1 .. rows |-> [j \in 1 .. cols |-> Num((i + j) % 3)]]]
IsSparseOperand(other) == other.fmt # "dense"

\* np.dot of two 2-D arrays, and the product of two sparse matrices, which
\* adds up the products of the stored entries only
RECURSIVE SumTerms(_, _)
SumTerms(terms, n) == IF n = 0 THEN Num(0) ELSE VAdd(SumTerms(terms, n - 1), terms[n])
NpDot(A, B) ==
    [i \in DOMAIN A |-> [j \in DOMAIN B[1] |->
        SumTerms([k \in DOMAIN B |-> VMul(A[i][k], B[k][j])], Len(B))]]
SparseDot(A, SA, B, SB) ==
    [i \in DOMAIN A |-> [j \in DOMAIN B[1] |->
        SumTerms([k \in DOMAIN B |->
                    IF SA[i][k] /\ SB[k][j] THEN VMul(A[i][k], B[k][j]) ELSE Num(0)],
                 Len(B))]]
StoredOfStore(st) ==
    [i \in 1 .. NumObs(st) |-> [j \in 1 .. NumVars(st) |-> <<i, j>> \in st.nz]]
StoredOfOperand(other) ==
    [i \in DOMAIN other.M |-> [j \in DOMAIN other.M[1] |-> other.M[i][j] # Num(0)]]

\* self._adata.X.dot(other) if other_is_right_side else other.dot(self._adata.X):
\* the left and the right factor, with their stored entries
SidesSwapped(st, other, other_is_right_side) ==
    IF other_is_right_side
    THEN [A |-> other.M, SA |-> StoredOfOperand(other), B |-> st.X, SB |-> StoredOfStore(st)]
    ELSE [A |-> st.X, SA |-> StoredOfStore(st), B |-> other.M, SB |-> StoredOfOperand(other)]
Sides(st, other, other_is_right_side) ==
    IF other_is_right_side
    THEN [A |-> st.X, SA |-> StoredOfStore(st), B |-> other.M, SB |-> StoredOfOperand(other)]
    ELSE [A |-> other.M, SA |-> StoredOfOperand(other), B |-> st.X, SB |-> StoredOfStore(st)]

\* InferelatorData.dot: the product returned, sparse or dense, or the error
DotProduct(st, other, other_is_right_side, force_dense) ==
    LET s == Sides(st, other, other_is_right_side)
        dot_product ==
            IF IsSparse(st) /\ IsSparseOperand(other)
            THEN [sparse |-> TRUE, M |-> SparseDot(s.A, s.SA, s.B, s.SB)]
            ELSE IF IsSparse(st) /\ ~IsSparseOperand(other)
            THEN [sparse |-> TRUE, M |-> SparseDot(s.A, s.SA, s.B, s.SB)]
            ELSE IF ~IsSparse(st) /\ IsSparseOperand(other)
            THEN [sparse |-> FALSE, M |-> NpDot(s.A, s.B)]
            ELSE [sparse |-> FALSE, M |-> NpDot(s.A, s.B)]
    IN  IF Len(s.A[1]) # Len(s.B)
        THEN [err |-> "shapes not aligned", sparse |-> FALSE, M |-> <<>>]
        ELSE [err |-> "none",
              sparse |-> IF force_dense /\ dot_product.sparse THEN FALSE
                         ELSE dot_product.sparse,
              M |-> dot_product.M]

\* store.dot(other, other_is_right_side, force_dense)
Dot(other, other_is_right_side, force_dense) ==
    /\ nops < MaxOps
    /\ nops' = nops + 1
    /\ store' = store
    /\ last' = [op |-> "dot",
                err |-> DotProduct(store, other, other_is_right_side, force_dense).err,
                other |-> other, other_is_right_side |-> other_is_right_side,
                force_dense |-> force_dense,
                result |-> DotProduct(store, other, other_is_right_side, force_dense),
                pre |-> store]
    /\ twin' = WriteThrough(twin, store')
    /\ UNCHANGED <<protoVars, part, bootVars>>

\* X.indices of a CSR matrix: the column of each stored entry, in the order
\* of X.data
CsrIndicesRows(st) == [k \in DOMAIN StoredOrder(st) |-> StoredOrder(st)[k][1]]
CsrIndices(st) == [k \in DOMAIN StoredOrder(st) |-> StoredOrder(st)[k][2]]

\* What non_finite returns: the count, and the labels or None
NoneFound == [count |-> 0, none |-> TRUE, labels |-> <<>>]
Found(st, mask) ==
    IF CountTrue(mask) > 0
    THEN [count |-> CountTrue(mask), none |-> FALSE,
          labels |-> [k \in DOMAIN KeptIndices(mask) |-> st.gene_names[KeptIndices(mask)[k]]]]
    ELSE NoneFound

\* InferelatorData.non_finite.  self._data is X.data for a sparse matrix, so
\* the first test is on the number of stored entries there.
NonFiniteOf(st) ==
    IF (IF IsSparse(st) THEN Cardinality(st.nz) = 0 ELSE NumObs(st) = 0 \/ NumVars(st) = 0)
    THEN NoneFound
    ELSE IF st.fmt = "csr"
    THEN LET order == StoredOrder(st)
             nan_indices == {CsrIndices(st)[k] : k \in {m \in DOMAIN order :
                                ~IsFinite(st.X[order[m][1]][order[m][2]])}}
         IN  Found(st, [j \in 1 .. NumVars(st) |-> j \in nan_indices])
    ELSE IF st.fmt = "csc"
    THEN LET flag == [i \in 1 .. NumObs(st) |-> [j \in 1 .. NumVars(st) |->
                        <<i, j>> \in st.nz /\ ~IsFinite(st.X[i][j])]]
         IN  Found(st, [j \in 1 .. NumVars(st) |->
                          Cardinality({i \in 1 .. NumObs(st) : flag[i][j]}) > 0])
    ELSE Found(st, [j \in 1 .. NumVars(st) |->
                      Cardinality({i \in 1 .. NumObs(st) : ~IsFinite(st.X[i][j])}) > 0])

\* store.non_finite
NonFinite ==
    /\ nops < MaxOps
    /\ nops' = nops + 1
    /\ store' = store
    /\ last' = [op |-> "non_finite", err |-> "none", result |-> NonFiniteOf(store),
                pre |-> store]
    /\ twin' = WriteThrough(twin, store')
    /\ UNCHANGED <<protoVars, part, bootVars>>

\* What the calls are made with
Axes == {"None", "0", "1", "2"}
Ramp(n) == [k \in 1 .. n |-> Num(k)]
ScaleValues == {Scalar(Num(2)), Vector(Ramp(NumGenes)), Vector(Ramp(NumSamples))}
LabelUniverse == SeqRange(GeneLabels) \cup {"zz"}
TrimLists == {NoList} \cup {GivenList(names) : names \in SUBSET LabelUniverse}
ColumnSets == {{"a"}, {"b"}, {"a", "b"}}
FrameIndexes(labels) == {labels, <<labels[Len(labels)], "zz">>}
Frames(labels) ==
    {Frame(index, cols, tag) :
        index \in FrameIndexes(labels), cols \in ColumnSets, tag \in {"v1", "v2"}}
KindChoices == [1 .. NumGenes -> ColumnKinds]

StoreIdle ==
    /\ store = NewStore("dense", "float64", [j \in 1 .. NumGenes |-> "vary"])
    /\ last = NoCall
    /\ nops = 0
    /\ twin = NoTwin

(***************************************************************************)
(* The bootstrap sampler, WorkflowBase.get_bootstraps.                      *)
(***************************************************************************)

\* Two workflow runs (two ranks, or two runs of the program), each calling
\* get_bootstraps once.
Runs == {"first", "second"}

\* numpy's generator, as a linear congruential generator of full period:
\* the state a seed gives, the state after one draw, and the index in
\* range(n) a state yields.
SeedState(seed) == (3 * seed + 1) % 16
NextRng(s) == (5 * s + 3) % 16
RandInt(s, n) == (s \div 2) % n

\* random_state = np.random.RandomState(seed=self.random_seed)
RandomStateUnseeded(seed) == SeedState(entropy)
RandomState(seed) == SeedState(seed)

\* The first `count' draws of the generator in state s, from range(n)
RECURSIVE Draws(_, _, _)
Draws(s, count, n) ==
    IF count = 0 THEN <<>>
    ELSE <<RandInt(NextRng(s), n)>> \o Draws(NextRng(s), count - 1, n)

\* random_state.choice(col_range, size=(rows, cols)).tolist(), col_range
\* being range(n): the draws, row after row
ChoiceShape(s, n, rows, cols) ==
    [b \in 1 .. rows |-> SubSeq(Draws(s, rows * cols, n), (b - 1) * cols + 1, b * cols)]
ChoiceTransposed(s, num, n) == ChoiceShape(s, n, n, num)
Choice(s, num, n) == ChoiceShape(s, n, num, n)

BootNone == [stage |-> "idle", seed |-> 0, num |-> 0, n |-> 0, rs |-> 0, result |-> <<>>]

WfNew == [step |-> "new"]
BootIdle ==
    /\ entropy = 0
    /\ boot = [w \in Runs |-> BootNone]
    /\ wf = WfNew

\* col_range = range(self.response.shape[1]);
\* random_state = np.random.RandomState(seed=self.random_seed)
GetBootstrapsSeed(w, seed, num, n) ==
    /\ boot[w].stage = "idle"
    /\ boot' = [boot EXCEPT ![w] = [stage |-> "seeded", seed |-> seed, num |-> num, n |-> n,
                                    rs |-> RandomState(seed), result |-> <<>>]]
    /\ \E e \in 0 .. MaxEntropy : entropy' = e
    /\ UNCHANGED <<protoVars, part, storeVars, wf>>

\* return random_state.choice(col_range, size=(self.num_bootstraps,
\* self.response.shape[1])).tolist()
GetBootstrapsChoice(w) ==
    /\ boot[w].stage = "seeded"
    /\ boot' = [boot EXCEPT ![w].stage = "done",
                            ![w].result = Choice(boot[w].rs, boot[w].num, boot[w].n)]
    /\ UNCHANGED <<protoVars, part, entropy, storeVars, wf>>

BootNext ==
    \/ \E w \in Runs, seed \in 0 .. MaxSeed, num \in 0 .. NumBootstraps, n \in 0 .. MaxSamples :
          GetBootstrapsSeed(w, seed, num, n)
    \/ \E w \in Runs : GetBootstrapsChoice(w)

ProtoInit ==
    /\ pc = [r \in Ranks |-> "loop"]
    /\ idx = [r \in Ranks |-> 0]
    /\ clr_mat = [r \in Ranks |-> None]
    /\ kvs = {}
    /\ own = [r \in Ranks |-> {}]
    /\ delivered = {}
    /\ putLog = <<>>
    /\ viewed = {}
    /\ cleared = {}
    /\ regressed = {}

Goto(r, step) == pc' = [pc EXCEPT ![r] = NextPc(step, IsMaster(r))]

\* The caller's loop over the bootstraps enters run_bootstrap(X, Y, idx, bootstrap)
RunBootstrap(r) ==
    /\ pc[r] = "loop"
    /\ idx[r] < NumBootstraps
    /\ Goto(r, "loop")
    /\ UNCHANGED <<idx, clr_mat, kvs, own, delivered, putLog, viewed, cleared, regressed, part, bootVars, storeVars>>

\* The loop ends after the last bootstrap
Finish(r) ==
    /\ pc[r] = "loop"
    /\ idx[r] = NumBootstraps
    /\ pc' = [pc EXCEPT ![r] = "done"]
    /\ UNCHANGED <<idx, clr_mat, kvs, own, delivered, putLog, viewed, cleared, regressed, part, bootVars, storeVars>>

\* clr_mat, _ = mi.MIDriver(cores=self.cores).run(X_bulk, Y_bulk)
ComputeMI(r) ==
    /\ pc[r] = "mi"
    /\ IsMaster(r)
    /\ clr_mat' = [clr_mat EXCEPT ![r] = ClrOf(idx[r])]
    /\ Goto(r, "mi")
    /\ UNCHANGED <<idx, kvs, own, delivered, putLog, viewed, cleared, regressed, part, bootVars, storeVars>>

\* self.kvs.put('mi %d' % idx, clr_mat)
Put(r) ==
    /\ pc[r] = "put"
    /\ kvs' = kvs \cup {[key |-> PutKey(idx[r]), value |-> clr_mat[r]]}
    /\ putLog' = Append(putLog, [rank |-> r, ord |-> idx[r], key |-> PutKey(idx[r]),
                                 value |-> clr_mat[r]])
    /\ Goto(r, "put")
    /\ UNCHANGED <<idx, clr_mat, own, delivered, viewed, cleared, regressed, part, bootVars, storeVars>>

\* clr_mat = self.kvs.view('mi %d' % idx)
View(r) ==
    /\ pc[r] = "mi"
    /\ ~IsMaster(r)
    /\ ViewReady(ViewKey(idx[r]))
    /\ clr_mat' = [clr_mat EXCEPT ![r] = Lookup(ViewKey(idx[r]))]
    /\ viewed' = IF Lookup(ViewKey(idx[r])) # None
                 THEN viewed \cup {<<r, idx[r]>>} ELSE viewed
    /\ Goto(r, "mi")
    /\ UNCHANGED <<idx, kvs, own, delivered, putLog, cleared, regressed, part, bootVars, storeVars>>

\* ownCheck = utils.ownCheck(self.kvs, self.rank, chunk=25)
OwnCheck(r) ==
    /\ pc[r] = "own"
    /\ own' = [own EXCEPT ![r] = UtilsOwnCheck(r, part.chunk)]
    /\ Goto(r, "own")
    /\ UNCHANGED <<idx, clr_mat, kvs, delivered, putLog, viewed, cleared, regressed, part, bootVars, storeVars>>

\* bbsr_python.BBSR_runner().run(X, Y, clr_mat, ...): the rank regresses its
\* chunks and hands the partial results to the collector
BBSRRun(r) ==
    /\ pc[r] = "bbsr"
    /\ regressed' = regressed \cup {<<r, idx[r]>>}
    /\ delivered' = delivered \cup {<<r, idx[r]>>}
    /\ Goto(r, "bbsr")
    /\ UNCHANGED <<idx, clr_mat, kvs, own, putLog, viewed, cleared, part, bootVars, storeVars>>

\* ... and the call returns betas, re_betas
BBSRReturn(r) ==
    /\ pc[r] = "collect"
    /\ IsMaster(r) => AllRanksConfirmed(idx[r])
    /\ Goto(r, "collect")
    /\ UNCHANGED <<idx, clr_mat, kvs, own, delivered, putLog, viewed, cleared, regressed, part, bootVars, storeVars>>

\* if self.is_master(): _ = self.kvs.get('mi %d' % idx)
Clear(r) ==
    /\ pc[r] = "clear"
    /\ IF IsMaster(r)
       THEN \E e \in kvs :
              /\ e.key = GetKey(idx[r])
              /\ kvs' = kvs \ {e}
              /\ cleared' = cleared \cup {[rank |-> r, ord |-> idx[r], key |-> e.key]}
       ELSE UNCHANGED <<kvs, cleared>>
    /\ Goto(r, "clear")
    /\ UNCHANGED <<idx, clr_mat, own, delivered, putLog, viewed, regressed, part, bootVars, storeVars>>

\* X, Y, idx, clr_mat = None, None, None, None; return betas, re_betas; the
\* caller's loop goes on to the next ordinal
Return(r) ==
    /\ pc[r] = "release"
    /\ clr_mat' = [clr_mat EXCEPT ![r] = None]
    /\ idx' = [idx EXCEPT ![r] = idx[r] + 1]
    /\ Goto(r, "release")
    /\ UNCHANGED <<kvs, own, delivered, putLog, viewed, cleared, regressed, part, bootVars, storeVars>>

RankNext(r) ==
    \/ RunBootstrap(r)
    \/ Finish(r)
    \/ ComputeMI(r)
    \/ Put(r)
    \/ View(r)
    \/ OwnCheck(r)
    \/ BBSRRun(r)
    \/ BBSRReturn(r)
    \/ Clear(r)
    \/ Return(r)

Init ==
    /\ ProtoInit
    /\ part = [total |-> MaxUnits, chunk |-> ChunkSize, ranks |-> NumRanks]
    /\ BootIdle
    /\ StoreIdle

Next == \E r \in Ranks : RankNext(r)

Spec == Init /\ [][Next]_vars

\* Every rank is a process of its own that the system keeps scheduling.
FairSpec == Spec /\ \A r \in Ranks : WF_vars(RankNext(r))

(***************************************************************************)
(* The rendezvous with failing ranks.  run_bootstrap has no try statement: *)
(* an exception of one of its statements leaves the function at once.      *)
(***************************************************************************)

\* The statements of run_bootstrap that call into other code
Raising == {"mi", "put", "own", "bbsr", "collect", "clear"}

\* Where the exception takes the rank: out of run_bootstrap and out of the
\* caller's loop
PropagateRetried(r) == pc' = [pc EXCEPT ![r] = "loop"]
Propagate(r) == pc' = [pc EXCEPT ![r] = "failed"]

\* The statement the rank is at raises.  kvs.view raises, as it returns, only
\* once the key holds an entry: before that it blocks.
Raise(r) ==
    /\ pc[r] \in Raising
    /\ (pc[r] = "mi" /\ ~IsMaster(r)) => ViewReady(ViewKey(idx[r]))
    /\ Propagate(r)
    /\ UNCHANGED <<idx, clr_mat, kvs, own, delivered, putLog, viewed, cleared, regressed, part, bootVars, storeVars>>

FailInit ==
    /\ ProtoInit
    /\ part = [total |-> MaxUnits, chunk |-> ChunkSize, ranks |-> NumRanks]
    /\ BootIdle
    /\ StoreIdle

FailNext ==
    \/ \E r \in Ranks : RankNext(r)
    \/ \E r \in Ranks : Raise(r)

SpecFail == FailInit /\ [][FailNext]_vars

(***************************************************************************)
(* The sampler on its own: the ranks are not running.                       *)
(***************************************************************************)
ProtoIdle ==
    /\ pc = [r \in Ranks |-> "done"]
    /\ idx = [r \in Ranks |-> 0]
    /\ clr_mat = [r \in Ranks |-> None]
    /\ kvs = {}
    /\ own = [r \in Ranks |-> {}]
    /\ delivered = {}
    /\ putLog = <<>>
    /\ viewed = {}
    /\ cleared = {}
    /\ regressed = {}
    /\ part = [total |-> 0, chunk |-> ChunkSize, ranks |-> NumRanks]

BootstrapsInit == ProtoIdle /\ BootIdle /\ StoreIdle
SpecBootstraps == BootstrapsInit /\ [][BootNext]_vars

(***************************************************************************)
(* The store on its own: a constructed store and the calls made on it.      *)
(***************************************************************************)

\* trim_genes on stores of every layout, integer and floating, with and
\* without gene metadata assigned
TrimInit ==
    /\ ProtoIdle
    /\ BootIdle
    /\ \E fmt \in Formats, dtype \in {"int32", "float64"}, kinds \in KindChoices,
          gene_data \in {NoData} \cup
                        {Frame(index, {"a"}, "v1") :
                            index \in FrameIndexes(GeneLabels) \cup {<<"zz">>}} :
          store = NewStoreWithData(fmt, dtype, kinds, NoData, gene_data)
    /\ last = NoCall
    /\ nops = 0
    /\ twin = NoTwin

TrimNext ==
    \E remove_constant_genes \in BOOLEAN, trim_gene_list \in TrimLists :
        TrimGenes(remove_constant_genes, trim_gene_list)

SpecTrim == TrimInit /\ [][TrimNext]_vars

\* divide and multiply on stores of every layout and dtype
ScaleInit ==
    /\ ProtoIdle
    /\ BootIdle
    /\ \E fmt \in Formats, dtype \in Dtypes, kinds \in KindChoices :
          store = NewStore(fmt, dtype, kinds)
    /\ last = NoCall
    /\ nops = 0
    /\ twin = NoTwin

ScaleNext ==
    \E val \in ScaleValues, axis \in Axes :
        \/ Divide(val, axis)
        \/ Multiply(val, axis)

SpecScale == ScaleInit /\ [][ScaleNext]_vars

\* the metadata setters on a store constructed with or without metadata
MetaInit ==
    /\ ProtoIdle
    /\ BootIdle
    /\ \E meta_data \in {NoData} \cup Frames(SampleLabels),
          gene_data \in {NoData} \cup Frames(GeneLabels) :
          store = NewStoreWithData("dense", "float64", [j \in 1 .. NumGenes |-> "vary"],
                                   meta_data, gene_data)
    /\ last = NoCall
    /\ nops = 0
    /\ twin = NoTwin

MetaNext ==
    \/ \E new_gene_data \in Frames(GeneLabels) : SetGeneData(new_gene_data)
    \/ \E new_meta_data \in Frames(SampleLabels) : SetMetaData(new_meta_data)

SpecMeta == MetaInit /\ [][MetaNext]_vars

\* A store constructed from an integer array, on which multiply or divide
\* has been called once, and the calls made on it afterwards
AllVary == [j \in 1 .. NumGenes |-> "vary"]
PromoteInit ==
    /\ ProtoIdle
    /\ BootIdle
    /\ \E fmt \in Formats, dtype \in IntDtypes, op \in {"divide", "multiply"},
          val \in ScaleValues, axis \in Axes :
          /\ store = Scale(NewStore(fmt, dtype, AllVary), op, val, axis).store
          /\ last = [op |-> op, err |-> Scale(NewStore(fmt, dtype, AllVary), op, val, axis).err,
                     val |-> val, axis |-> axis, pre |-> NewStore(fmt, dtype, AllVary)]
    /\ nops = 0
    /\ twin = NoTwin

PromoteNext ==
    \/ \E func \in Functions, add_pseudocount \in BOOLEAN, memory_efficient \in BOOLEAN :
            Transform(func, add_pseudocount, memory_efficient)
    \/ \E val \in ScaleValues, axis \in {"None", "1"} :
            Divide(val, axis) \/ Multiply(val, axis)
    \/ \E remove_constant_genes \in BOOLEAN,
          trim_gene_list \in {NoList, GivenList({GeneLabels[1]})} :
            TrimGenes(remove_constant_genes, trim_gene_list)
    \/ SetGeneData(Frame(GeneLabels, {"a"}, "v1"))
    \/ SetMetaData(Frame(SampleLabels, {"a"}, "v1"))

SpecPromote == PromoteInit /\ [][PromoteNext]_vars

\* A store with or without metadata, its copy, and the calls made on one of
\* the two afterwards
CopyInit ==
    /\ ProtoIdle
    /\ BootIdle
    /\ \E fmt \in Formats, dtype \in {"int32", "float64"},
          meta_data \in {NoData, Frame(SampleLabels, {"b"}, "v0")},
          gene_data \in {NoData} \cup
                        {Frame(index, {"b"}, "v0") : index \in FrameIndexes(GeneLabels)} :
          store = NewStoreWithData(fmt, dtype, AllVary, meta_data, gene_data)
    /\ last = NoCall
    /\ nops = 0
    /\ twin = NoTwin

CopyNext ==
    \/ \E side \in {"copy", "original"} : Copy(side)
    \/ PromoteNext

SpecCopy == CopyInit /\ [][CopyNext]_vars

(***************************************************************************)
(* multiply on a sparse store, with vectors that hold an infinite factor   *)
(* among the values.                                                        *)
(***************************************************************************)
WithInf(n) == [k \in 1 .. n |-> IF k = 1 THEN <<1, 0>> ELSE Num(k)]
NaturalValues == ScaleValues \cup {Vector(WithInf(NumGenes)), Vector(WithInf(NumSamples))}

NaturalInit ==
    /\ ProtoIdle
    /\ BootIdle
    /\ \E fmt \in {"csr", "csc"}, dtype \in Dtypes, kinds \in KindChoices :
          store = NewStore(fmt, dtype, kinds)
    /\ last = NoCall
    /\ nops = 0
    /\ twin = NoTwin

NaturalNext ==
    \E val \in NaturalValues, axis \in {"0", "1"} : Multiply(val, axis)

SpecNatural == NaturalInit /\ [][NaturalNext]_vars

(***************************************************************************)
(* dot on stores of every layout, with dense and sparse operands that fit  *)
(* on the right or on the left.                                             *)
(***************************************************************************)
Operands ==
    {Operand(fmt, NumGenes, cols) : fmt \in {"dense", "csr"}, cols \in 1 .. 2} \cup
    {Operand(fmt, rows, NumSamples) : fmt \in {"dense", "csr"}, rows \in 1 .. 2}

DotInit ==
    /\ ProtoIdle
    /\ BootIdle
    /\ \E fmt \in Formats, kinds \in KindChoices :
          store = NewStore(fmt, "float64", kinds)
    /\ last = NoCall
    /\ nops = 0
    /\ twin = NoTwin

DotNext ==
    \E other \in Operands, other_is_right_side \in BOOLEAN, force_dense \in BOOLEAN :
        Dot(other, other_is_right_side, force_dense)

SpecDot == DotInit /\ [][DotNext]_vars

(***************************************************************************)
(* non_finite on floating stores of every layout whose columns may hold    *)
(* inf or nan, and on stores with no gene.                                  *)
(***************************************************************************)
NonFiniteInit ==
    /\ ProtoIdle
    /\ BootIdle
    /\ \E fmt \in Formats, kinds \in [1 .. NumGenes -> ColumnKinds \cup NonFiniteKinds],
          genes \in BOOLEAN :
          store = IF genes THEN NewStore(fmt, "float64", kinds)
                  ELSE SliceGenes(NewStore(fmt, "float64", AllVary),
                                  [j \in 1 .. NumGenes |-> FALSE])
    /\ last = NoCall
    /\ nops = 0
    /\ twin = NoTwin

NonFiniteNext == NonFinite

SpecNonFinite == NonFiniteInit /\ [][NonFiniteNext]_vars

(***************************************************************************)
(* A store on which gene_data has just been assigned, or never was, and    *)
(* the trim_genes call that follows.                                        *)
(***************************************************************************)
PendingInit ==
    /\ ProtoIdle
    /\ BootIdle
    /\ \E fmt \in Formats, kinds \in KindChoices,
          first \in {NoData, Frame(GeneLabels, {"b"}, "v0")},
          new_gene_data \in {NoData} \cup
                            {Frame(index, {"a"}, "v1") :
                                index \in FrameIndexes(GeneLabels) \cup {<<"zz">>}} :
          LET made == NewStoreWithData(fmt, "float64", kinds, NoData, first)
          IN  IF new_gene_data = NoData
              THEN /\ first = NoData
                   /\ store = made
                   /\ last = NoCall
              ELSE /\ store = AssignGeneData(made, new_gene_data).store
                   /\ last = [op |-> "gene_data",
                              err |-> AssignGeneData(made, new_gene_data).err,
                              new |-> new_gene_data, pre |-> made]
    /\ nops = 0
    /\ twin = NoTwin

PendingNext ==
    \E remove_constant_genes \in BOOLEAN, trim_gene_list \in TrimLists :
        TrimGenes(remove_constant_genes, trim_gene_list)

SpecPending == PendingInit /\ [][PendingNext]_vars

(***************************************************************************)
(* The startup of the velocity workflow: startup_run loads the expression   *)
(* data and the velocity data and checks that their labels agree;           *)
(* startup_finish leads to _recalculate_design.                             *)
(***************************************************************************)

\* check.indexes_align((a, b)): the two indexes have the same labels in the
\* same order; it raises otherwise
IndexesAlign(a, b) == a = b

\* The two calls of _align_velocity: the gene names, then the sample names
AlignVelocityGenesOnly(w) == IndexesAlign(w.velocity.gene_names, w.data.gene_names)
AlignVelocityChecks(w) ==
    /\ IndexesAlign(w.velocity.gene_names, w.data.gene_names)
    /\ IndexesAlign(w.velocity.sample_names, w.data.sample_names)

\* The two assertions of _combine_expression_velocity
CombineChecks(w) ==
    /\ IndexesAlign(w.data.gene_names, w.velocity.gene_names)
    /\ IndexesAlign(w.data.sample_names, w.velocity.sample_names)

\* The label orders a loaded file can come with: the labels of n rows or
\* columns, each one of the universe, no label twice
LabelOrders(universe, n) ==
    {q \in [1 .. n -> universe] : \A a, b \in 1 .. n : q[a] = q[b] => a = b}

NoLabels == [gene_names |-> <<>>, sample_names |-> <<>>]

\* super().startup_run(): the expression data is loaded
StartupRunSuper ==
    /\ wf.step = "new"
    /\ wf' = [step |-> "loaded",
              data |-> [gene_names |-> GeneLabels, sample_names |-> SampleLabels],
              velocity |-> NoLabels, err |-> "none",
              loaded |-> NoLabels, entered |-> FALSE, combined |-> NoLabels]
    /\ UNCHANGED <<protoVars, part, entropy, boot, storeVars>>

\* self.load_velocity()
LoadVelocity(gene_names, sample_names) ==
    /\ wf.step = "loaded"
    /\ wf' = [wf EXCEPT !.step = "velocity",
                        !.velocity = [gene_names |-> gene_names, sample_names |-> sample_names],
                        !.loaded = [gene_names |-> gene_names, sample_names |-> sample_names]]
    /\ UNCHANGED <<protoVars, part, entropy, boot, storeVars>>

\* self._align_velocity(): the end of startup_run, or the error it raises
AlignVelocity ==
    /\ wf.step = "velocity"
    /\ wf' = IF AlignVelocityChecks(wf)
             THEN [wf EXCEPT !.step = "started"]
             ELSE [wf EXCEPT !.step = "failed", !.err = "AlignmentError"]
    /\ UNCHANGED <<protoVars, part, entropy, boot, storeVars>>

\* startup_finish, compute_common_data (which does nothing in this
\* workflow) and _recalculate_design: the response is made of the two, and
\* both are released
RecalculateDesign ==
    /\ wf.step = "started"
    /\ wf' = IF CombineChecks(wf)
             THEN [wf EXCEPT !.step = "design", !.entered = TRUE, !.combined = wf.velocity,
                             !.data = NoLabels, !.velocity = NoLabels]
             ELSE [wf EXCEPT !.step = "failed", !.entered = TRUE, !.combined = wf.velocity,
                             !.err = "AlignmentError"]
    /\ UNCHANGED <<protoVars, part, entropy, boot, storeVars>>

VelocityNext ==
    \/ StartupRunSuper
    \/ \E gene_names \in LabelOrders(LabelUniverse, NumGenes),
          sample_names \in LabelOrders(SeqRange(SampleLabels) \cup {"zz"}, NumSamples) :
            LoadVelocity(gene_names, sample_names)
    \/ AlignVelocity
    \/ RecalculateDesign

VelocityInit == ProtoIdle /\ BootIdle /\ StoreIdle
SpecVelocity == VelocityInit /\ [][VelocityNext]_vars

(***************************************************************************)
(* The velocity file of the velocity workflow: set_velocity_parameters     *)
(* names the file, its type and its layer, load_velocity loads it.          *)
(***************************************************************************)

\* _VELOCITY_FILE_TYPES = [_TSV, _HDF5, _H5AD]: 'tsv', 'hdf5' and 'h5ad'
VelocityFileTypes == {"tsv", "hdf5", "h5ad"}

\* str.lower() on the strings handed in as velocity_file_type
Lower(s) ==
    CASE s = "TSV" -> "tsv"
      [] s = "H5AD" -> "h5ad"
      [] s = "Hdf5" -> "hdf5"
      [] OTHER -> s

\* self._set_with_warning(attr, value): the attribute takes the value unless
\* the value is None
SetWithWarning(cfg, attr, value) ==
    IF value = "None" THEN cfg ELSE [cfg EXCEPT ![attr] = value]

\* The class attributes: all None
NoVelocityFile ==
    [velocity_file_name |-> "None", velocity_file_type |-> "None", velocity_h5_layer |-> "None"]

\* VelocityWorkflow.set_velocity_parameters
SetVelocityParameters(velocity_file_name, velocity_file_type, velocity_file_layer) ==
    /\ wf.step = "config"
    /\ wf.calls < MaxOps + 1
    /\ LET named == SetWithWarning(wf.cfg, "velocity_file_name", velocity_file_name)
           layered == SetWithWarning(named, "velocity_h5_layer", velocity_file_layer)
           call == [step |-> "config", calls |-> wf.calls + 1,
                    op |-> "set_velocity_parameters", err |-> "none",
                    loader |-> "none", pre |-> wf.cfg, cfg |-> layered]
       IN  IF velocity_file_type # "None" /\ Lower(velocity_file_type) \in VelocityFileTypes
           THEN wf' = [call EXCEPT !.cfg = SetWithWarning(layered, "velocity_file_type",
                                                          velocity_file_type)]
           ELSE IF velocity_file_type # "None"
           THEN wf' = [call EXCEPT !.err = "velocity_file_type must be in"]
           ELSE wf' = call
    /\ UNCHANGED <<protoVars, part, entropy, boot, storeVars>>

\* VelocityWorkflow.load_velocity(): the loader the configured type selects
LoadVelocityFile ==
    /\ wf.step = "config"
    /\ wf.calls < MaxOps + 1
    /\ LET loader_type == wf.cfg.velocity_file_type
           call == [step |-> "config", calls |-> wf.calls + 1,
                    op |-> "load_velocity", err |-> "none",
                    loader |-> "none", pre |-> wf.cfg, cfg |-> wf.cfg]
       IN  IF loader_type = "tsv" \/ loader_type = "None"
           THEN wf' = [call EXCEPT !.loader = "load_data_tsv"]
           ELSE IF loader_type = "h5ad"
           THEN wf' = [call EXCEPT !.loader = "load_data_h5ad"]
           ELSE IF loader_type = "hdf5"
           THEN wf' = [call EXCEPT !.loader = "load_data_hdf5"]
           ELSE wf' = [call EXCEPT !.err = "Invalid velocity_file_type"]
    /\ UNCHANGED <<protoVars, part, entropy, boot, storeVars>>

VelocityFileInit ==
    /\ ProtoIdle
    /\ entropy = 0
    /\ boot = [w \in Runs |-> BootNone]
    /\ wf = [step |-> "config", calls |-> 0, op |-> "none", err |-> "none",
             loader |-> "none", pre |-> NoVelocityFile, cfg |-> NoVelocityFile]
    /\ StoreIdle

VelocityFileNext ==
    \/ \E velocity_file_name \in {"None", "velocity.tsv", "velocity.h5ad"},
          velocity_file_type \in {"None", "tsv", "TSV", "h5ad", "H5AD", "hdf5", "Hdf5", "csv"},
          velocity_file_layer \in {"None", "velocity"} :
            SetVelocityParameters(velocity_file_name, velocity_file_type, velocity_file_layer)
    \/ LoadVelocityFile

SpecVelocityFile == VelocityFileInit /\ [][VelocityFileNext]_vars

(***************************************************************************)
(* WorkflowBase.set_gold_standard_and_priors: the priors are read, split     *)
(* if the workflow is set to, and their two indexes checked for duplicates.  *)
(***************************************************************************)

\* check.index_values_unique(index): no label twice; it raises ValueError
\* otherwise
IndexValuesUnique(q) == \A a, b \in DOMAIN q : q[a] = q[b] => a = b
HasDuplicates(q) == ~IndexValuesUnique(q)

\* except ValueError as v_err: what the two try blocks catch
CaughtNothing(exception) == FALSE
Caught(exception) == exception = "ValueError"

\* The priors a file can hold: genes by transcription factors, any label
\* any number of times
TfLabels == <<"tf1", "tf2">>
PriorFrames ==
    {[index |-> index, columns |-> columns] :
        index \in [1 .. NumGenes -> SeqRange(GeneLabels)],
        columns \in [1 .. Len(TfLabels) -> SeqRange(TfLabels)]}

\* The rows of a frame a split keeps, in their order
KeepRows(frame, rows) ==
    [frame EXCEPT !.index = [k \in 1 .. Cardinality(rows) |->
        frame.index[CHOOSE i \in rows : Cardinality({h \in rows : h < i}) = k - 1]]]

\* self.priors_data = self.input_dataframe(self.priors_file)
ReadPriors(priors, split_priors_for_gold_standard, split_gold_standard_for_crossvalidation) ==
    /\ wf.step = "new"
    /\ wf' = [step |-> "priors_read", priors_data |-> priors, read |-> priors,
              split_priors_for_gold_standard |-> split_priors_for_gold_standard,
              split_gold_standard_for_crossvalidation |-> split_gold_standard_for_crossvalidation,
              checked |-> priors, log |-> <<>>, err |-> "none"]
    /\ UNCHANGED <<protoVars, part, entropy, boot, storeVars>>

\* The gold standard: split from the priors, or read; then resampled for
\* cross-validation.  A split leaves the priors some of their rows.
SplitGoldStandard(rows) ==
    /\ wf.step = "priors_read"
    /\ rows \subseteq DOMAIN wf.priors_data.index
    /\ rows # {}
    /\ (~wf.split_priors_for_gold_standard /\ ~wf.split_gold_standard_for_crossvalidation)
            => rows = DOMAIN wf.priors_data.index
    /\ wf' = [wf EXCEPT !.step = "split",
                        !.priors_data = KeepRows(wf.priors_data, rows),
                        !.checked = KeepRows(wf.priors_data, rows)]
    /\ UNCHANGED <<protoVars, part, entropy, boot, storeVars>>

\* try: check.index_values_unique(...) except ValueError: two lines logged
CheckUnique(labels, message, next) ==
    IF IndexValuesUnique(labels) THEN [wf EXCEPT !.step = next]
    ELSE IF Caught("ValueError")
    THEN [wf EXCEPT !.step = next, !.log = @ \o <<message>>]
    ELSE [wf EXCEPT !.step = "raised", !.err = "ValueError"]

CheckPriorIndex ==
    /\ wf.step = "split"
    /\ wf' = CheckUnique(wf.priors_data.index, "Duplicate gene(s) in prior index",
                         "index_checked")
    /\ UNCHANGED <<protoVars, part, entropy, boot, storeVars>>

CheckPriorColumns ==
    /\ wf.step = "index_checked"
    /\ wf' = CheckUnique(wf.priors_data.columns, "Duplicate tf(s) in prior index",
                         "priors_done")
    /\ UNCHANGED <<protoVars, part, entropy, boot, storeVars>>

PriorsNext ==
    \/ \E priors \in PriorFrames, split_priors_for_gold_standard \in BOOLEAN,
          split_gold_standard_for_crossvalidation \in BOOLEAN :
            ReadPriors(priors, split_priors_for_gold_standard,
                       split_gold_standard_for_crossvalidation)
    \/ \E rows \in SUBSET (1 .. NumGenes) : SplitGoldStandard(rows)
    \/ CheckPriorIndex
    \/ CheckPriorColumns

PriorsInit == ProtoIdle /\ BootIdle /\ StoreIdle
SpecPriors == PriorsInit /\ [][PriorsNext]_vars

(***************************************************************************)
(* The partition on its own: a pool of part.ranks ranks, each at the call   *)
(* of ownCheck of one bootstrap, for every total, chunk size and pool size. *)
(***************************************************************************)
ChunkSizes == {1, 2, ChunkSize}
Pool == 0 .. (part.ranks - 1)

PartitionInit ==
    /\ part \in [total : 0 .. MaxUnits, chunk : ChunkSizes, ranks : 1 .. NumRanks]
    /\ pc = [r \in Ranks |-> IF r < part.ranks THEN "own" ELSE "done"]
    /\ idx = [r \in Ranks |-> 0]
    /\ clr_mat = [r \in Ranks |-> IF r < part.ranks THEN ClrOf(0) ELSE None]
    /\ kvs = {[key |-> MiKey(0), value |-> ClrOf(0)]}
    /\ own = [r \in Ranks |-> {}]
    /\ delivered = {}
    /\ putLog = <<[rank |-> 0, ord |-> 0, key |-> MiKey(0), value |-> ClrOf(0)]>>
    /\ viewed = {<<r, 0>> : r \in Pool \ {0}}
    /\ cleared = {}
    /\ regressed = {}
    /\ BootIdle
    /\ StoreIdle

PartitionNext == \E r \in Ranks : OwnCheck(r) \/ BBSRRun(r)

SpecPartition == PartitionInit /\ [][PartitionNext]_vars

\* The partition with any statistics in the store: the keys of the ordinals
\* of `held', each put by the master
RECURSIVE PutsOf(_)
PutsOf(held) ==
    IF held = {} THEN <<>>
    ELSE LET i == CHOOSE i \in held : \A j \in held : i <= j
         IN  <<[rank |-> 0, ord |-> i, key |-> MiKey(i), value |-> ClrOf(i)]>>
                \o PutsOf(held \ {i})

OwnershipInit ==
    /\ part \in [total : 0 .. MaxUnits, chunk : ChunkSizes, ranks : 1 .. NumRanks]
    /\ pc = [r \in Ranks |-> IF r < part.ranks THEN "own" ELSE "done"]
    /\ idx = [r \in Ranks |-> 0]
    /\ clr_mat = [r \in Ranks |-> IF r < part.ranks THEN ClrOf(0) ELSE None]
    /\ \E held \in SUBSET Ordinals :
        /\ kvs = {[key |-> MiKey(i), value |-> ClrOf(i)] : i \in held}
        /\ putLog = PutsOf(held)
    /\ own = [r \in Ranks |-> {}]
    /\ delivered = {}
    /\ viewed = {<<r, 0>> : r \in Pool \ {0}}
    /\ cleared = {}
    /\ regressed = {}
    /\ BootIdle
    /\ StoreIdle

SpecOwnership == OwnershipInit /\ [][PartitionNext]_vars

(***************************************************************************)
(* The rendezvous: what is checked.                                         *)
(***************************************************************************)

\* C1: a rank, master or worker, starts the regression of bootstrap i only
\* after the master has published the statistic under bootstrap i's key.
C1_RegressionAfterPublish ==
    \A p \in regressed :
        \E k \in DOMAIN putLog :
            /\ putLog[k].key = MiKey(p[2])
            /\ putLog[k].rank = 0
C1_Witness ==
    \E r \in Ranks :
        /\ r # 0
        /\ <<r, NumBootstraps - 1>> \in regressed
        /\ <<0, NumBootstraps - 1>> \in regressed

\* C2: whenever the master removes the statistic of bootstrap i from the
\* store, every worker of the pool has already read the value of key i (the
\* master holds the value it computed itself).
C2_ClearAfterAllViewed ==
    \A c \in cleared :
        /\ c.rank = 0
        /\ c.key = MiKey(c.ord)
        /\ \A r \in Ranks \ {0} : <<r, c.ord>> \in viewed
C2_Witness ==
    /\ \E c \in cleared : c.ord = NumBootstraps - 1
    /\ \E r \in Ranks \ {0} : pc[r] = "collect" /\ idx[r] = NumBootstraps - 1

\* C3: under fair scheduling of the ranks, with no rank failing, every worker
\* that awaits the key of bootstrap i eventually obtains the statistic, and
\* every rank eventually finishes every bootstrap of the run.
C3_AwaitReturnsAndAllFinish ==
    /\ \A r \in Ranks \ {0}, i \in Ordinals :
          (pc[r] = "mi" /\ idx[r] = i) ~> (<<r, i>> \in viewed /\ clr_mat[r] = ClrOf(i))
    /\ <>(\A r \in Ranks : pc[r] = "done" /\ idx[r] = NumBootstraps)
C3_Witness ==
    /\ \A r \in Ranks : pc[r] = "done"
    /\ \A r \in Ranks \ {0}, i \in Ordinals : <<r, i>> \in viewed

\* C4: rank 0 is the one master of the pool and the only writer of the
\* store; it writes the statistic of a bootstrap once, under the key made of
\* that bootstrap's ordinal, and the value under a key is that bootstrap's.
C4_SingleWriter ==
    /\ {r \in Ranks : IsMaster(r)} = {0}
    /\ \A k \in DOMAIN putLog :
          /\ putLog[k].rank = 0
          /\ putLog[k].key = MiKey(putLog[k].ord)
          /\ putLog[k].value = ClrOf(putLog[k].ord)
          /\ \A j \in DOMAIN putLog : j # k => putLog[j].key # putLog[k].key
    /\ \A e \in kvs : e.value = ClrOf(e.key.ord)
    /\ pc[0] = "done" => {putLog[k].ord : k \in DOMAIN putLog} = Ordinals
C4_Witness ==
    /\ Len(putLog) = NumBootstraps
    /\ pc[0] = "done"

\* C5: for every total, chunk size and rank count, the chunk sets of the
\* ranks of the pool together are all chunk indices of
\* [0, ceil(total/chunk)), the sets of two distinct ranks share no chunk, and
\* so no chunk is regressed by two ranks and, once every rank has regressed,
\* each chunk has been regressed by exactly one.
AllChunks == {k \in 0 .. part.total : k * part.chunk < part.total}
Partitioned(r) == r \in Pool /\ pc[r] # "own"
RegressedBy(k) == {r \in Pool : <<r, idx[r]>> \in regressed /\ k \in own[r]}
C5_PartitionCompleteDisjoint ==
    /\ (\A r \in Pool : Partitioned(r)) => UNION {own[r] : r \in Pool} = AllChunks
    /\ \A r1, r2 \in Pool :
          (r1 # r2 /\ Partitioned(r1) /\ Partitioned(r2)) => own[r1] \cap own[r2] = {}
    /\ \A k \in AllChunks : Cardinality(RegressedBy(k)) <= 1
    /\ (\A r \in Pool : pc[r] = "collect") =>
          \A k \in AllChunks : Cardinality(RegressedBy(k)) = 1
C5_Witness ==
    /\ part.ranks = NumRanks
    /\ part.chunk = ChunkSize
    /\ Cardinality(AllChunks) = NumRanks
    /\ \A r \in Pool : pc[r] = "collect" /\ own[r] # {}

(***************************************************************************)
(* The sampler: what is checked.                                            *)
(***************************************************************************)

C7_SamplerShapeAndRange ==
    \A w \in Runs :
        boot[w].stage = "done" =>
            /\ Len(boot[w].result) = boot[w].num
            /\ \A b \in 1 .. Len(boot[w].result) :
                  /\ Len(boot[w].result[b]) = boot[w].n
                  /\ \A j \in 1 .. Len(boot[w].result[b]) :
                        boot[w].result[b][j] \in 0 .. (boot[w].n - 1)
C7_Witness ==
    \E w \in Runs :
        /\ boot[w].stage = "done"
        /\ boot[w].num = NumBootstraps
        /\ boot[w].n = MaxSamples
        /\ \E b \in 1 .. NumBootstraps, j, k \in 1 .. MaxSamples :
              j # k /\ boot[w].result[b][j] = boot[w].result[b][k]


\* C8: trim_genes(remove_constant_genes=False, trim_gene_list=L) keeps
\* exactly the genes of the store that are in L, in the order the store had
\* them, each with its column of the matrix, whatever the store and whatever
\* L; when no gene of the store is in L it raises "No genes remain after
\* trimming" and the store is left as it was.
C8_TrimKeepsListedGenes ==
    (last.op = "trim_genes" /\ ~last.remove_constant_genes /\ last.trim_gene_list.given) =>
        LET pre == last.pre
            J == SelectSeq([j \in 1 .. Len(pre.gene_names) |-> j],
                           LAMBDA j : pre.gene_names[j] \in last.trim_gene_list.names)
        IN  IF J = <<>>
            THEN last.err = "No genes remain after trimming" /\ store = pre
            ELSE /\ last.err = "none"
                 /\ store.gene_names = [k \in DOMAIN J |-> pre.gene_names[J[k]]]
                 /\ \A i \in 1 .. Len(pre.sample_names) :
                        store.X[i] = [k \in DOMAIN J |-> pre.X[i][J[k]]]

C8_Witness ==
    /\ last.op = "trim_genes"
    /\ ~last.remove_constant_genes
    /\ last.trim_gene_list.given
    /\ last.pre.uns.has
    /\ last.pre.uns.list # last.trim_gene_list.names \cap SeqRange(last.pre.gene_names)
    /\ last.err = "none"
    /\ Len(store.gene_names) < Len(last.pre.gene_names)

OrientationMessage == "axis = 1 only works for CSC & axis = 0 only works for CSR"

TableBefore == IF last.op = "gene_data" THEN last.pre.var ELSE last.pre.obs
TableAfter == IF last.op = "gene_data" THEN store.var ELSE store.obs
TableLabels == IF last.op = "gene_data" THEN store.gene_names ELSE store.sample_names

\* C10: after gene metadata (or sample metadata) is assigned a second time
\* with a column name the table already has, that column holds the second
\* assignment's values, every column of the first assignment that the second
\* does not have is still there with its values, and the table has one row
\* per gene (per sample).
C10_SecondAssignmentWins ==
    (last.op \in {"gene_data", "meta_data"} /\ TableBefore.cols \cap last.new.cols # {}) =>
        /\ TableAfter.index = TableLabels
        /\ TableAfter.cols = TableBefore.cols \cup last.new.cols
        /\ \A k \in DOMAIN TableLabels :
            /\ \A c \in last.new.cols :
                TableAfter.cell[<<k, c>>] = Reindex(last.new, TableLabels).cell[<<k, c>>]
            /\ \A c \in TableBefore.cols \ last.new.cols :
                TableAfter.cell[<<k, c>>] = TableBefore.cell[<<k, c>>]


\* C11: once multiply or divide has been called on a store constructed from
\* integers, the store is floating and stays so: after the call and after
\* every later trim_genes, transform, multiply, divide and metadata
\* assignment the matrix has a floating dtype and the store is not flagged
\* integer.
C11_PromotionIrrevocable ==
    store.dtype \in FloatDtypes /\ ~store.is_integer

\* The genes of the store the call was made on that the list in force (the
\* argument, else the recorded trim list, else none) does not name
OffList ==
    LET names == IF last.trim_gene_list.given THEN last.trim_gene_list.names
                 ELSE IF last.pre.uns.has THEN last.pre.uns.list
                 ELSE SeqRange(last.pre.gene_names)
    IN  {j \in 1 .. Len(last.pre.gene_names) : last.pre.gene_names[j] \notin names}

\* C12: when trim_genes raises because no gene remains, the list count in
\* the message is the number of genes not named by the list in force, and
\* the constant count is the number of genes removed only for being constant
\* (on the list, and constant, when constant genes were to be removed).
C12_EmptyTrimCountsSeparate ==
    (last.op = "trim_genes" /\ last.err = "No genes remain after trimming") =>
        /\ last.lst = Cardinality(OffList)
        /\ last.v = Cardinality({j \in 1 .. Len(last.pre.gene_names) :
                        /\ j \notin OffList
                        /\ last.remove_constant_genes
                        /\ ~NotConstant(last.pre, j)})

\* C13: right after copy() the two instances have equal matrices, labels,
\* sample metadata and gene metadata; and whatever is called afterwards on
\* one of them, the other keeps the matrix, labels, metadata tables and
\* pending trim list it had at the copy.
C13_CopyEqualAndIndependent ==
    twin.has =>
        /\ twin.obj = twin.was
        /\ last.op = "copy" =>
            /\ store.X = twin.obj.X
            /\ store.gene_names = twin.obj.gene_names
            /\ store.sample_names = twin.obj.sample_names
            /\ store.obs = twin.obj.obs
            /\ store.var = twin.obj.var

\* C14: after every assignment of gene (sample) metadata the table's row
\* labels are the matrix's column (row) labels in the same order, every label
\* the new metadata does not have is an undefined placeholder row in the
\* columns assigned, and the matrix and its labels are what they were.
C14_AssignmentRealigns ==
    last.op \in {"gene_data", "meta_data"} =>
        /\ TableAfter.index = TableLabels
        /\ last.new.cols \subseteq TableAfter.cols
        /\ \A k \in DOMAIN TableLabels : \A c \in last.new.cols :
                TableLabels[k] \notin SeqRange(last.new.index)
                    => TableAfter.cell[<<k, c>>] = NaNCell
        /\ store.X = last.pre.X
        /\ store.gene_names = last.pre.gene_names
        /\ store.sample_names = last.pre.sample_names

AxisMessage == "axis must be 0, 1 or None"
DtypeMessage == "Data is not float, int32, or int64"

\* C15 as stated: multiply and divide called with an axis that is not None,
\* 0 or 1 raise the 'axis must be 0, 1 or None' error on every store, dense,
\* CSR and CSC.
C15_InvalidAxisAsStated ==
    (last.op \in {"divide", "multiply"} /\ last.axis \notin {"None", "0", "1"}) =>
        last.err = AxisMessage

\* C15 amended: with such an axis multiply and divide always raise; the
\* error is 'axis must be 0, 1 or None' on a dense store, the orientation
\* error on a CSR or CSC store, and on an integer store of a dtype other
\* than int32 and int64 the failed conversion to float, whatever the format.
C15_InvalidAxisByFormat ==
    (last.op \in {"divide", "multiply"} /\ last.axis \notin {"None", "0", "1"}) =>
        last.err = IF last.pre.is_integer /\ last.pre.dtype \in IntDtypes \ {"int32", "int64"}
                   THEN DtypeMessage
                   ELSE IF last.pre.fmt = "dense" THEN AxisMessage
                   ELSE OrientationMessage

C15_Witness ==
    /\ last.op = "multiply"
    /\ last.axis = "2"
    /\ last.pre.fmt = "csc"
    /\ last.pre.dtype = "float64"
    /\ last.err = OrientationMessage
    /\ store = last.pre

\* The velocity data was loaded with gene or sample labels that differ from
\* the expression data's, in order or in membership
LoadedMisaligned ==
    /\ wf.step \notin {"new", "loaded"}
    /\ \/ wf.loaded.gene_names # GeneLabels
       \/ wf.loaded.sample_names # SampleLabels

\* C16: when the velocity data's gene or sample labels disagree with the
\* expression data's, startup_run raises the alignment error in the step
\* right after the load, and _recalculate_design is never entered; whenever
\* _recalculate_design is entered the labels agree.
C16_MisalignedVelocityStopsStartup ==
    /\ LoadedMisaligned =>
        /\ wf.step \in {"velocity", "failed"}
        /\ wf.step = "failed" => wf.err = "AlignmentError"
        /\ ~wf.entered
    /\ (wf.step \notin {"new", "loaded"} /\ wf.entered) =>
        /\ wf.combined.gene_names = GeneLabels
        /\ wf.combined.sample_names = SampleLabels

C16_Witness ==
    /\ wf.step = "failed"
    /\ wf.err = "AlignmentError"
    /\ wf.loaded.gene_names = GeneLabels
    /\ wf.loaded.sample_names # SampleLabels
    /\ SeqRange(wf.loaded.sample_names) = SeqRange(SampleLabels)

\* C17: duplicate names in the row index or the column index of the priors
\* never make set_gold_standard_and_priors raise: each check that finds
\* duplicates logs its warning and goes on, and when the function has
\* returned priors_data is the frame that was checked, duplicates included.
C17_DuplicatePriorsOnlyWarn ==
    wf.step \in {"split", "index_checked", "priors_done", "raised"} =>
        /\ wf.step # "raised"
        /\ wf.err = "none"
        /\ wf.priors_data = wf.checked
        /\ wf.step \in {"index_checked", "priors_done"} =>
            (HasDuplicates(wf.checked.index)
                <=> \E k \in DOMAIN wf.log : wf.log[k] = "Duplicate gene(s) in prior index")
        /\ wf.step = "priors_done" =>
            (HasDuplicates(wf.checked.columns)
                <=> \E k \in DOMAIN wf.log : wf.log[k] = "Duplicate tf(s) in prior index")

C17_Witness ==
    /\ wf.step = "priors_done"
    /\ HasDuplicates(wf.priors_data.index)
    /\ HasDuplicates(wf.priors_data.columns)
    /\ Len(wf.log) = 2
    /\ wf.err = "none"

\* The statements of run_bootstrap after the statistic is in hand, and after
\* the regression has been started
AfterStatistic == {"own", "bbsr", "collect", "clear", "release"}
AfterRegression == {"collect", "clear", "release"}
Published(i) == \E k \in DOMAIN putLog : putLog[k].ord = i
Retired(i) == (\E c \in cleared : c.ord = i) /\ (\A e \in kvs : e.key.ord # i)

\* C18: in each bootstrap a rank has the statistic (the master has computed
\* and published it, a worker has read it) before it partitions, partitions
\* before it regresses, and regresses before the cleanup; the master removes
\* the key of bootstrap i after its own regression of i and before it drops
\* the data of i and goes on to i + 1; and every rank takes the ordinals
\* 0, 1, 2, ... in that order, none skipped, none twice.
C18_StepOrder ==
    /\ \A r \in Ranks :
        /\ pc[r] \in AfterStatistic =>
            /\ clr_mat[r] = ClrOf(idx[r])
            /\ IF IsMaster(r) THEN Published(idx[r]) ELSE <<r, idx[r]>> \in viewed
        /\ pc[r] \in {"loop", "mi", "put", "own"} => <<r, idx[r]>> \notin regressed
        /\ pc[r] = "bbsr" =>
            /\ own[r] = OwnedChunks(part.total, part.chunk, part.ranks, r)
            /\ <<r, idx[r]>> \notin regressed
        /\ pc[r] \in AfterRegression => <<r, idx[r]>> \in regressed
        /\ \A i \in Ordinals : <<r, i>> \in regressed => i <= idx[r]
        /\ \A i \in Ordinals : i < idx[r] => <<r, i>> \in regressed
    /\ \A c \in cleared : <<0, c.ord>> \in regressed
    /\ \A i \in Ordinals : (i < idx[0] \/ (i = idx[0] /\ pc[0] = "release")) => Retired(i)
    /\ \A i \in Ordinals : (i = idx[0] /\ pc[0] \in {"own", "bbsr", "collect", "clear"})
            => ~(\E c \in cleared : c.ord = i)

C18_Witness ==
    /\ pc[0] = "release"
    /\ idx[0] = NumBootstraps - 1
    /\ Retired(NumBootstraps - 1)
    /\ \E r \in Ranks \ {0} : pc[r] = "release" /\ idx[r] = NumBootstraps - 1

\* C19: the store never holds the statistic of two bootstraps: what it
\* holds is the statistic of the one bootstrap the master is at, and when
\* the master has finished the last bootstrap the store holds no key.
C19_StatisticScopedToBootstrap ==
    /\ Cardinality({e.key : e \in kvs}) <= 1
    /\ \A e \in kvs : e.key = MiKey(idx[0]) /\ idx[0] \in Ordinals
    /\ pc[0] = "done" => kvs = {}

C19_Witness ==
    /\ pc[0] = "done"
    /\ kvs = {}
    /\ {c.ord : c \in cleared} = Ordinals
    /\ \E r \in Ranks \ {0} : pc[r] = "done"

ReturnedBy(r, i) == idx[r] > i
KeyPublished(i) == \E k \in DOMAIN putLog : putLog[k].key = MiKey(i)
BlockedOn(r, i) ==
    /\ pc[0] = "failed" /\ idx[0] = i /\ ~KeyPublished(i)
    /\ r # 0 /\ pc[r] = "mi" /\ idx[r] = i
C21_FailFast ==
    /\ [][\A r \in Ranks :
            /\ pc'[r] # pc[r] =>
                  pc'[r] \in {"failed", "done", NextPc(pc[r], IsMaster(r))}
            /\ pc[r] = "failed" =>
                  /\ pc'[r] = "failed"
                  /\ ~ReturnedBy(r, idx[r])'
                  /\ {p \in regressed' : p[1] = r} = {p \in regressed : p[1] = r}
                  /\ {p \in delivered' : p[1] = r} = {p \in delivered : p[1] = r}
                  /\ {p \in viewed' : p[1] = r} = {p \in viewed : p[1] = r}
                  /\ IsMaster(r) => (putLog' = putLog /\ cleared' = cleared)]_vars
    /\ \A r \in Ranks, i \in Ordinals : [](BlockedOn(r, i) => []BlockedOn(r, i))
C21_Witness ==
    /\ \A r \in Ranks \ {0} : BlockedOn(r, NumBootstraps - 1)
    /\ \A r \in Ranks : ReturnedBy(r, 0)

\* C22: assigning gene_data records the labels the new frame and the store
\* have in common as the pending trim list (a store never assigned to has
\* none); the trim_genes call that follows keeps, without an allow-list, only
\* genes of the recorded list, with an allow-list the genes of the allow-list
\* whatever was recorded, and on a store never assigned to every gene; in
\* each case less the constant genes if their removal is asked for.
KeptNames == SeqRange(store.gene_names)
NamesBefore == SeqRange(last.pre.gene_names)
C22_PendingTrimList ==
    /\ last.op = "none" => ~store.uns.has
    /\ last.op = "gene_data" =>
          /\ store.uns.has
          /\ store.uns.list = SeqRange(last.new.index) \cap NamesBefore
    /\ (last.op = "trim_genes" /\ last.err = "none") =>
          LET allowed == IF last.trim_gene_list.given
                         THEN NamesBefore \cap last.trim_gene_list.names
                         ELSE IF last.pre.uns.has
                         THEN NamesBefore \cap last.pre.uns.list
                         ELSE NamesBefore
          IN  /\ KeptNames \subseteq allowed
              /\ ~last.remove_constant_genes => KeptNames = allowed
              /\ store.uns = last.pre.uns
C22_Witness ==
    /\ last.op = "trim_genes"
    /\ last.err = "none"
    /\ ~last.trim_gene_list.given
    /\ last.pre.uns.has
    /\ last.pre.uns.list # {}
    /\ KeptNames = last.pre.uns.list
    /\ KeptNames # NamesBefore

\* C23: trim_genes leaves the store untouched when it removes nothing and
\* when it fails: a call that keeps every gene does not rebuild the object,
\* and matrix, labels and metadata are what they were; a call that raises
\* "No genes remain after trimming" leaves matrix, labels, metadata and the
\* pending trim list what they were.
C23_TrimFrame ==
    last.op = "trim_genes" =>
        /\ last.err # "none" => (store = last.pre /\ ~last.rebuilt)
        /\ (last.err = "none" /\ store.gene_names = last.pre.gene_names) =>
              (store = last.pre /\ ~last.rebuilt)
        /\ last.rebuilt => Len(store.gene_names) < Len(last.pre.gene_names)
C23_Witness ==
    /\ last.op = "trim_genes"
    /\ last.err = "none"
    /\ last.remove_constant_genes
    /\ last.pre.uns.has
    /\ IsSparse(last.pre)
    /\ store.gene_names = last.pre.gene_names
    /\ ~last.rebuilt
\* ... and the failing call, on a store with gene metadata and a pending list
C23_WitnessRaised ==
    /\ last.op = "trim_genes"
    /\ last.err = "No genes remain after trimming"
    /\ last.pre.uns.has /\ last.pre.uns.list # {}
    /\ last.pre.var.cols # {}

\* The dense store with the same contents, and the same call made on it
DenseOf(st) == [st EXCEPT !.fmt = "dense", !.nz = {}]
OnDense == Scale(DenseOf(last.pre), last.op, last.val, last.axis)
NaturalCall ==
    /\ last.op = "multiply"
    /\ IsSparse(last.pre)
    /\ (last.pre.fmt = "csr" /\ last.axis = "1") \/ (last.pre.fmt = "csc" /\ last.axis = "0")
FitsAxis ==
    /\ last.val.ndim = 1
    /\ Len(last.val.data) = (IF last.axis = "1" THEN Len(last.pre.sample_names)
                             ELSE Len(last.pre.gene_names))
FactorOf(i, j) == last.val.data[IF last.axis = "1" THEN i ELSE j]
StoredScaled ==
    \A p \in last.pre.nz : store.X[p[1]][p[2]] = VMul(last.pre.X[p[1]][p[2]], FactorOf(p[1], p[2]))

\* C24 as stated: multiply on a CSR store with axis=1, or a CSC store with
\* axis=0, by a 1-D vector of that axis's length gives every stored entry the
\* factor of its row (column) and the matrix the same call gives on a dense
\* store with the same contents; any other value raises and leaves the
\* values unscaled.
C24_SparseAsDenseAsStated ==
    NaturalCall =>
        IF FitsAxis
        THEN /\ last.err = OnDense.err
             /\ last.err = "none" => StoredScaled
             /\ store.X = OnDense.store.X
        ELSE last.err # "none" /\ store.X = last.pre.X

\* C24, amended: the matrix is the one of the dense store when every factor
\* is finite; an infinite or nan factor leaves the zeros that are not stored
\* zero, where the dense store gets nan.
C24_SparseAsDenseFiniteFactors ==
    NaturalCall =>
        IF FitsAxis
        THEN /\ last.err = OnDense.err
             /\ last.err = "none" => StoredScaled
             /\ (\A k \in DOMAIN last.val.data : IsFinite(last.val.data[k])) =>
                    store.X = OnDense.store.X
        ELSE last.err # "none" /\ store.X = last.pre.X
C24_Witness ==
    /\ NaturalCall /\ FitsAxis
    /\ last.err = "none"
    /\ \A k \in DOMAIN last.val.data : IsFinite(last.val.data[k])
    /\ last.pre.nz # {}
    /\ \E p \in (DOMAIN store.X) \X (1 .. Len(store.gene_names)) : p \notin last.pre.nz
    /\ store.X # last.pre.X
    /\ store.X = OnDense.store.X

\* C25: on a dense floating store, with a function that keeps the dtype,
\* transform with memory_efficient=True applies the function to every row
\* once and gives the matrix transform with memory_efficient=False gives.
C25_ChunkedEqualsWhole ==
    (/\ last.op = "transform"
     /\ last.memory_efficient
     /\ ~IsSparse(last.pre)
     /\ ~last.pre.is_integer
     /\ last.pre.dtype \in FloatDtypes
     /\ FuncDtype(last.func, last.pre.dtype) = last.pre.dtype) =>
        /\ last.err = "none"
        /\ store.X = TransformStore(last.pre, last.func, last.add_pseudocount, FALSE).store.X

\* C26: dot follows the dispatch table: a sparse store gives a sparse
\* product with a sparse and with a dense operand, a dense store a dense
\* product with either; other_is_right_side selects store . other or
\* other . store; with force_dense the product returned is never sparse; and
\* the store is left as it was.
RowTimesColumn(A, B, i, j) ==
    SumTerms([k \in DOMAIN B |-> VMul(A[i][k], B[k][j])], Len(B))
C26_DotDispatch ==
    (last.op = "dot") =>
        LET X == last.pre.X
            O == last.other.M
            A == IF last.other_is_right_side THEN X ELSE O
            B == IF last.other_is_right_side THEN O ELSE X
        IN  /\ store = last.pre
            /\ last.err = "none" <=> Len(A[1]) = Len(B)
            /\ last.err = "none" =>
                  /\ last.result.sparse = (last.pre.fmt \in {"csr", "csc"} /\ ~last.force_dense)
                  /\ DOMAIN last.result.M = DOMAIN A
                  /\ \A i \in DOMAIN A :
                        /\ DOMAIN last.result.M[i] = DOMAIN B[1]
                        /\ \A j \in DOMAIN B[1] :
                              last.result.M[i][j] = RowTimesColumn(A, B, i, j)
C26_Witness ==
    /\ last.op = "dot"
    /\ last.err = "none"
    /\ IsSparse(last.pre)
    /\ ~IsSparseOperand(last.other)
    /\ ~last.other_is_right_side
    /\ ~last.force_dense
    /\ last.result.sparse
    /\ \E i \in DOMAIN last.result.M : \E j \in DOMAIN last.result.M[i] :
          last.result.M[i][j] # Num(0)

\* C27: non_finite returns the number of genes that hold a non-finite value
\* and the labels of exactly those genes, None when there are none or the
\* matrix has an empty axis; dense, CSR and CSC stores of the same values
\* give the same result.
WithFormat(st, fmt) ==
    [st EXCEPT !.fmt = fmt,
               !.nz = IF fmt = "dense" THEN {}
                      ELSE {p \in (1 .. Len(st.sample_names)) \X (1 .. Len(st.gene_names)) :
                              st.X[p[1]][p[2]] # Num(0)}]
C27_NonFiniteGenes ==
    (last.op = "non_finite") =>
        LET pre == last.pre
            bad == {j \in 1 .. Len(pre.gene_names) :
                      \E i \in 1 .. Len(pre.sample_names) : pre.X[i][j][2] = 0}
            J == SelectSeq([j \in 1 .. Len(pre.gene_names) |-> j], LAMBDA j : j \in bad)
        IN  /\ last.result.count = Cardinality(bad)
            /\ last.result.none = (bad = {})
            /\ last.result.labels = [k \in DOMAIN J |-> pre.gene_names[J[k]]]
            /\ \A fmt \in Formats : NonFiniteOf(WithFormat(pre, fmt)) = last.result
            /\ store = pre
C27_Witness ==
    /\ last.op = "non_finite"
    /\ last.pre.fmt = "csr"
    /\ last.result.count = 1
    /\ last.result.labels = <<last.pre.gene_names[Len(last.pre.gene_names)]>>
    /\ Len(last.pre.gene_names) > 1

\* C28: in every state of a store, after construction and whatever calls of
\* transform, multiply, divide and trim_genes, the store is flagged integer
\* only if the dtype of its matrix is an integer dtype.
C28_FlagOnlyOnIntegerDtype ==
    store.is_integer => store.dtype \in IntDtypes

\* C29: multiply and divide are atomic with respect to errors: when a call
\* raises, the values, the dtype and the integer flag of the store are what
\* they were before the call.
C29_ScaleAtomicOnError ==
    (last.op \in {"divide", "multiply"} /\ last.err # "none") =>
        /\ store.X = last.pre.X
        /\ store.dtype = last.pre.dtype
        /\ store.is_integer = last.pre.is_integer

\* C30: every type set_velocity_parameters accepts is a type load_velocity
\* hands to a loader, so load_velocity never rejects the configured type;
\* and a set_velocity_parameters call that raises leaves the configured file
\* name and layer what they were.
C30_AcceptedTypesLoad ==
    /\ wf.step = "config" /\ wf.op = "load_velocity" =>
          /\ wf.err = "none"
          /\ wf.loader # "none"
    /\ (wf.step = "config" /\ wf.op = "set_velocity_parameters" /\ wf.err # "none") =>
          /\ wf.cfg.velocity_file_name = wf.pre.velocity_file_name
          /\ wf.cfg.velocity_h5_layer = wf.pre.velocity_h5_layer
\* ... its first half alone
C30_LoadNeverRejects ==
    (wf.step = "config" /\ wf.op = "load_velocity") => wf.err = "none"
\* ... and its second half alone
C30_RejectedSetKeepsNameAndLayer ==
    (wf.step = "config" /\ wf.op = "set_velocity_parameters" /\ wf.err # "none") =>
        /\ wf.cfg.velocity_file_name = wf.pre.velocity_file_name
        /\ wf.cfg.velocity_h5_layer = wf.pre.velocity_h5_layer

====
